---- MODULE Spec2Model ----
(***************************************************************************)
(* A model of the composition subsystem of rustfst: the sequence and       *)
(* look-ahead composition filters, the composition engine's expansion, the  *)
(* cache state, label reachability and factor-weight.                       *)
(*                                                                          *)
(* The module holds several specifications over one set of variables; each  *)
(* specification drives one component and leaves the other components'      *)
(* variables at their idle values.                                          *)
(***************************************************************************)
EXTENDS Integers, Sequences, FiniteSets, TLC

VARIABLES
    mode,       \* which component this behaviour drives
    \* SequenceComposeFilter (sequence_compose_filter.rs:14-29)
    fst1,       \* the filter's first operand
    s1, s2, fs, alleps1, noeps1,
    set_res,    \* result of the last set_state: "none", "ok", "err"
    q_arc1, q_arc2,     \* arguments of the last filter_arc since set_state, as passed
    arc1, arc2,         \* the same arcs as filter_arc left them
    fa_res,     \* filter state returned by the last filter_arc, or None
    \* LabelReachableData / LabelReachable (compose/label_reachable.rs:18-60)
    label2index,        \* HashMap<Label, Label>
    interval_sets,      \* Vec<IntervalSet>, state s at position s + 1
    final_label,
    reach_fst_input,
    rl_arg, rl_res,     \* the last relabel call: its argument and its result
    r_arcs,             \* the partner state's arc list handed to reach
    r_call,             \* the last reach call: arguments, strategy, result
    \* LabelLookAheadMatcher (lookahead_matchers/label_lookahead_matcher.rs:15-24)
    matcher1, matcher2, \* the matchers of FST1 and of FST2
    fst2,               \* the second operand
    fprops,             \* <<properties of FST1, properties of FST2>>
    rc,                 \* <<strong count of Rc FST1, strong count of Rc FST2>>
    m_call,             \* the last matcher call: arguments and result
    \* LookAheadComposeFilter (lookahead_filters/lookahead_compose_filter.rs:22-37)
    smt,                \* SMT::match_type()
    laf,                \* lookahead_type, flags, lookahead_arc, selector; <<>> if not built
    laf_new,            \* result of LookAheadComposeFilter::new: "none", "ok", "err"
    lfa,                \* result of the last filter_arc of the look-ahead filter
    la_ret,             \* what lookahead_fst returned in that call, "none" if not called
    \* FactorWeightImpl (factor_weight.rs:96-104) and its cache
    fw_fst,             \* the operand
    fw_sr,              \* its semiring
    fw_opts,            \* FactorWeightOptions
    fw_fi,              \* the factor iterator type FI
    fw,                 \* state_table, unfactored, cache_impl
    marked,             \* per cache state: the arcs when it was first marked expanded
    c_op,               \* the last operation on the cache
    fw_out,             \* the result of factor_weight, or None
    \* The composition: its semiring, its state table and its cache
    cm_sr,
    cm,
    \* An algorithm on a whole FST (reweight, closure, invert, weight_convert)
    alg_in,             \* the FST as it was handed in
    alg_arg,            \* the other arguments of the call
    alg_fst,            \* the FST the call works on or returns
    alg_res             \* "none" before the call, then "ok" or "err"

filterVars == <<fst1, s1, s2, fs, alleps1, noeps1, set_res, q_arc1, q_arc2, arc1, arc2, fa_res>>

reachVars == <<label2index, interval_sets, final_label, reach_fst_input, rl_arg, rl_res,
               r_arcs, r_call>>

matcherVars == <<matcher1, matcher2, fst2, fprops, rc, m_call>>

lafVars == <<smt, laf, laf_new, lfa, la_ret>>

factorVars == <<fw_fst, fw_sr, fw_opts, fw_fi, fw, marked, c_op, fw_out>>

composeVars == <<cm, cm_sr>>

algVars == <<alg_in, alg_arg, alg_fst, alg_res>>

vars == <<mode, filterVars, reachVars, matcherVars, lafVars, factorVars, composeVars,
         algVars>>

----------------------------------------------------------------------------
(* Sentinels and labels *)

\* lib.rs: EPS_LABEL = 0
EPS_LABEL == 0
\* lib.rs: NO_LABEL = usize::MAX; the model's machine word holds 31 bits
NO_LABEL == 2147483647
\* lib.rs: NO_STATE_ID = usize::MAX
NO_STATE_ID == 2147483647

\* Largest ordinary label of the bounded operands
MaxLabel == 1

Labels == 0..MaxLabel

\* Option<T>: None is the empty sequence, Some(x) the sequence <<x>>
None == <<>>
Some(x) == <<x>>
Unwrap(o) == o[1]

----------------------------------------------------------------------------
(* Arcs and FSTs *)

\* Arc::new(ilabel, olabel, weight, nextstate)
ArcNew(il, ol, w, ns) == [ilabel |-> il, olabel |-> ol, weight |-> w, nextstate |-> ns]

\* An FST: n states 0..n-1, an optional start state, the ordered arc list of
\* every state and the optional final weight of every state.
NumStates(fst) == fst.n

StateExists(fst, s) == s \in 0..(fst.n - 1)

\* CoreFst::num_arcs of a state that exists (a missing state is an error,
\* which the callers test with StateExists)
NumArcs(fst, s) == Len(fst.arcs[s])

\* Number of arcs of a sequence that satisfy a test
RECURSIVE CountOEps(_)
CountOEps(as) ==
    IF as = <<>> THEN 0
    ELSE (IF Head(as).olabel = EPS_LABEL THEN 1 ELSE 0) + CountOEps(Tail(as))

RECURSIVE CountIEps(_)
CountIEps(as) ==
    IF as = <<>> THEN 0
    ELSE (IF Head(as).ilabel = EPS_LABEL THEN 1 ELSE 0) + CountIEps(Tail(as))

\* Fst::num_output_epsilons
NumOutputEpsilons(fst, s) == CountOEps(fst.arcs[s])

\* CoreFst::final_weight of a state that exists: None for a non-final one
FinalWeight(fst, s) == fst.final[s]

\* CoreFst::is_final
IsFinal(fst, s) == fst.final[s] # None

\* An FST built by add_state (n times), set_start, add_arc for every element
\* of adds = <<(source, arc), ...>> in order, and set_final.
RECURSIVE ArcsOf(_, _)
ArcsOf(adds, s) ==
    IF adds = <<>> THEN <<>>
    ELSE (IF Head(adds)[1] = s THEN <<Head(adds)[2]>> ELSE <<>>) \o ArcsOf(Tail(adds), s)

MkFst(n, start, adds, final) ==
    [n |-> n, start |-> start,
     arcs |-> [s \in 0..(n - 1) |-> ArcsOf(adds, s)],
     final |-> final]

SeqsUpTo(S, k) == UNION {[1..j -> S] : j \in 0..k}

----------------------------------------------------------------------------
(* Semirings. "count" is the semiring of natural numbers with + and *        *)
(* (path counting, probabilities scaled to integers); "tropical" is          *)
(* (min, +) over the naturals with an infinite zero.                         *)

\* The tropical zero, +infinity
TropicalInf == 0 - 1

\* "ztropical" is (min, +) over the integers, the tropical semiring with its
\* division; its zero, +infinity, lies above every weight of the model
TropicalZInf == 1000000

Zero(sr) ==
    IF sr = "tropical" THEN TropicalInf
    ELSE IF sr = "ztropical" THEN TropicalZInf
    ELSE 0

One(sr) == IF sr = "tropical" \/ sr = "ztropical" THEN 0 ELSE 1

Plus(sr, a, b) ==
    IF sr = "tropical"
    THEN (IF a = TropicalInf THEN b ELSE IF b = TropicalInf THEN a ELSE IF a <= b THEN a ELSE b)
    ELSE IF sr = "ztropical"
    THEN (IF a <= b THEN a ELSE b)
    ELSE a + b

Times(sr, a, b) ==
    IF sr = "tropical"
    THEN (IF a = TropicalInf \/ b = TropicalInf THEN TropicalInf ELSE a + b)
    ELSE IF sr = "ztropical"
    THEN (IF a = TropicalZInf \/ b = TropicalZInf THEN TropicalZInf ELSE a + b)
    ELSE a * b

\* WeaklyDivisibleSemiring::divide by a weight that is not Zero; the
\* semiring is commutative and both divide types agree
Divide(sr, a, b) == IF a = TropicalZInf THEN TropicalZInf ELSE a - b

IsZero(sr, a) == a = Zero(sr)
IsOne(sr, a) == a = One(sr)

----------------------------------------------------------------------------
(* Idle values of the components a specification does not drive *)

NoCall == [kind |-> "none"]

ReachIdle ==
    /\ label2index = <<>>
    /\ interval_sets = <<>>
    /\ final_label = NO_LABEL
    /\ reach_fst_input = FALSE
    /\ rl_arg = None /\ rl_res = None
    /\ r_arcs = <<>>
    /\ r_call = NoCall

MatcherIdle ==
    /\ matcher1 = <<>> /\ matcher2 = <<>>
    /\ fst2 = <<>>
    /\ fprops = <<>>
    /\ rc = <<>>
    /\ m_call = NoCall

FactorIdle ==
    /\ fw_fst = <<>>
    /\ fw_sr = "none"
    /\ fw_opts = <<>>
    /\ fw_fi = "none"
    /\ fw = <<>>
    /\ marked = <<>>
    /\ c_op = NoCall
    /\ fw_out = None

LafIdle ==
    /\ smt = "MatchNone"
    /\ laf = <<>>
    /\ laf_new = "none"
    /\ lfa = NoCall
    /\ la_ret = "none"

AlgIdle ==
    /\ alg_in = <<>>
    /\ alg_arg = <<>>
    /\ alg_fst = <<>>
    /\ alg_res = "none"

ComposeIdle ==
    /\ cm_sr = "none"
    /\ cm = <<>>

FilterIdle ==
    /\ fst1 = <<>>
    /\ s1 = NO_STATE_ID /\ s2 = NO_STATE_ID /\ fs = NO_STATE_ID
    /\ alleps1 = FALSE /\ noeps1 = FALSE
    /\ set_res = "none"
    /\ q_arc1 = <<>> /\ q_arc2 = <<>> /\ arc1 = <<>> /\ arc2 = <<>>
    /\ fa_res = None

----------------------------------------------------------------------------
(* SequenceComposeFilter *)

\* Number of states and of arcs of the filter specification's operand
FilterStates == 2
FilterMaxArcs == 2

FilterAdds ==
    {<<p, ArcNew(1, ol, 1, 0)>> : p \in 0..(FilterStates - 1), ol \in Labels}

\* FST1 is sorted on output labels, as the sorted matcher on side 1 requires;
\* the arcs are added state by state.
FilterAddKey(a) == a[1] * (MaxLabel + 1) + a[2].olabel

FilterAddSeqs ==
    {q \in SeqsUpTo(FilterAdds, FilterMaxArcs) :
        \A i \in 1..(Len(q) - 1) : FilterAddKey(q[i]) <= FilterAddKey(q[i + 1])}

FilterFsts ==
    {MkFst(FilterStates, 0, adds, fin) :
        adds \in FilterAddSeqs,
        fin \in [0..(FilterStates - 1) -> {None, Some(1)}]}

\* IntegerFilterState values the engine passes to set_state
FilterStateInputs == {0, 1}

\* Arcs passed to filter_arc: real arcs and the matchers' epsilon loops
FilterArcLabels == Labels \cup {NO_LABEL}

FilterArc1Inputs == {ArcNew(1, ol, 1, 0) : ol \in FilterArcLabels}
FilterArc2Inputs == {ArcNew(il, 1, 1, 0) : il \in FilterArcLabels}

NoArc == ArcNew(0, 0, 0, NO_STATE_ID)


\* SequenceComposeFilter::new, fields s1 .. noeps1
FilterInit ==
    /\ s1 = NO_STATE_ID
    /\ s2 = NO_STATE_ID
    /\ fs = NO_STATE_ID
    /\ alleps1 = FALSE
    /\ noeps1 = FALSE
    /\ set_res = "none"
    /\ q_arc1 = NoArc /\ q_arc2 = NoArc
    /\ arc1 = NoArc /\ arc2 = NoArc
    /\ fa_res = None

\* SequenceComposeFilter::set_state. The three fields are assigned first; the
\* reads of FST1 then either fail (the flags keep their old values) or
\* recompute both flags.
SetState(ns1, ns2, nfs) ==
    /\ IF s1 = ns1 /\ s2 = ns2 /\ fs = nfs
       THEN /\ UNCHANGED <<s1, s2, fs, alleps1, noeps1>>
            /\ set_res' = "ok"
       ELSE /\ s1' = ns1
            /\ s2' = ns2
            /\ fs' = nfs
            /\ IF StateExists(fst1, ns1)
               THEN /\ alleps1' = (NumArcs(fst1, ns1) = NumOutputEpsilons(fst1, ns1)
                                   /\ ~IsFinal(fst1, ns1))
                    /\ noeps1' = (NumOutputEpsilons(fst1, ns1) = 0)
                    /\ set_res' = "ok"
               ELSE /\ UNCHANGED <<alleps1, noeps1>>
                    /\ set_res' = "err"
    /\ fa_res' = None
    /\ q_arc1' = NoArc /\ q_arc2' = NoArc
    /\ arc1' = NoArc /\ arc2' = NoArc
    /\ UNCHANGED fst1

\* A plausible slip: the two non-blocking outcomes of the epsilon-loop branch
\* exchanged.
SeqFilterArcSwapped(a1, a2, cfs, alleps, noeps) ==
    IF a1.olabel = NO_LABEL
    THEN (IF alleps THEN NO_STATE_ID ELSE IF noeps THEN 1 ELSE 0)
    ELSE IF a2.ilabel = NO_LABEL
    THEN (IF cfs # 0 THEN NO_STATE_ID ELSE 0)
    ELSE (IF a1.olabel = EPS_LABEL THEN NO_STATE_ID ELSE 0)

\* A plausible slip: the loop of side 2 let through in every filter state
SeqFilterArcAnyState(a1, a2, cfs, alleps, noeps) ==
    IF a1.olabel = NO_LABEL
    THEN (IF alleps THEN NO_STATE_ID ELSE IF noeps THEN 0 ELSE 1)
    ELSE IF a2.ilabel = NO_LABEL
    THEN 0
    ELSE (IF a1.olabel = EPS_LABEL THEN NO_STATE_ID ELSE 0)

\* SequenceComposeFilter::filter_arc: the returned filter state
SeqFilterArc(a1, a2, cfs, alleps, noeps) ==
    IF a1.olabel = NO_LABEL
    THEN (IF alleps THEN NO_STATE_ID ELSE IF noeps THEN 0 ELSE 1)
    ELSE IF a2.ilabel = NO_LABEL
    THEN (IF cfs # 0 THEN NO_STATE_ID ELSE 0)
    ELSE (IF a1.olabel = EPS_LABEL THEN NO_STATE_ID ELSE 0)

\* filter_arc as a call on the filter object: the arcs are borrowed mutably
\* and left as they were.
FilterArc(a1, a2) ==
    /\ q_arc1' = a1 /\ q_arc2' = a2
    /\ arc1' = a1 /\ arc2' = a2
    /\ fa_res' = Some(SeqFilterArc(a1, a2, fs, alleps1, noeps1))
    /\ UNCHANGED <<fst1, s1, s2, fs, alleps1, noeps1, set_res>>

InitSeq ==
    /\ mode = "seq"
    /\ ComposeIdle
    /\ AlgIdle
    /\ FactorIdle
    /\ fst1 \in FilterFsts
    /\ FilterInit
    /\ ReachIdle
    /\ MatcherIdle
    /\ LafIdle

SeqSetState ==
    \E ns1 \in 0..FilterStates, ns2 \in 0..1, nfs \in FilterStateInputs :
        SetState(ns1, ns2, nfs) /\ UNCHANGED <<mode, algVars, composeVars, reachVars, matcherVars, lafVars, factorVars>>

SeqFilterArcCall ==
    \E a1 \in FilterArc1Inputs, a2 \in FilterArc2Inputs :
        FilterArc(a1, a2) /\ UNCHANGED <<mode, algVars, composeVars, reachVars, matcherVars, lafVars, factorVars>>

NextSeq == SeqSetState \/ SeqFilterArcCall

SpecSeq == InitSeq /\ [][NextSeq]_vars

----------------------------------------------------------------------------
(* C2: after set_state on an existing state of FST1, filter_arc returns      *)
(* exactly the transition of the sequence filter: u = NO_LABEL gives block   *)
(* when alleps1, 0 when noeps1, 1 otherwise; v = NO_LABEL gives block when   *)
(* fs is not 0, else 0; a real match gives block when u = EPS, else 0; the   *)
(* flags are those of s1 in FST1, the result is one of 0, 1, blocking, and   *)
(* neither arc is changed.                                                   *)

SpecAllEps1(fst, s) == Len(fst.arcs[s]) = CountOEps(fst.arcs[s]) /\ fst.final[s] = None
SpecNoEps1(fst, s) == CountOEps(fst.arcs[s]) = 0

SpecTransition(u, v, cfs, alleps, noeps) ==
    CASE u = NO_LABEL /\ alleps -> NO_STATE_ID
      [] u = NO_LABEL /\ ~alleps /\ noeps -> 0
      [] u = NO_LABEL /\ ~alleps /\ ~noeps -> 1
      [] u # NO_LABEL /\ v = NO_LABEL /\ cfs # 0 -> NO_STATE_ID
      [] u # NO_LABEL /\ v = NO_LABEL /\ cfs = 0 -> 0
      [] u # NO_LABEL /\ v # NO_LABEL /\ u = EPS_LABEL -> NO_STATE_ID
      [] u # NO_LABEL /\ v # NO_LABEL /\ u # EPS_LABEL -> 0

C2_FilterArcTransition ==
    (mode = "seq" /\ fa_res # None /\ StateExists(fst1, s1)) =>
        /\ Unwrap(fa_res) = SpecTransition(q_arc1.olabel, q_arc2.ilabel, fs,
                                           SpecAllEps1(fst1, s1), SpecNoEps1(fst1, s1))
        /\ Unwrap(fa_res) \in {0, 1, NO_STATE_ID}
        /\ arc1 = q_arc1 /\ arc2 = q_arc2

\* An epsilon loop on side 1 at a state with both epsilon and non-epsilon
\* output arcs: the filter moves to state 1.
C2_Witness ==
    /\ mode = "seq" /\ fa_res = Some(1) /\ StateExists(fst1, s1)
    /\ q_arc1.olabel = NO_LABEL
    /\ ~SpecAllEps1(fst1, s1) /\ ~SpecNoEps1(fst1, s1)

----------------------------------------------------------------------------
(* LabelReachable::relabel *)

\* Largest ordinary label handed to relabel
RelabelMaxLabel == 3

RelabelInputs == (0..RelabelMaxLabel) \cup {NO_LABEL}

Range(f) == {f[x] : x \in DOMAIN f}

Injective(f) == \A x, y \in DOMAIN f : f[x] = f[y] => x = y

\* label2index as find_intervals leaves it: every label of the operand (and
\* NO_LABEL when the operand has a final state) is mapped to the index of its
\* sink state; state reachability numbers the sinks 1, 2, ...
Label2IndexAfterNew ==
    UNION {{f \in [seen -> 1..Cardinality(seen)] : Injective(f)} :
              seen \in SUBSET ((1..(RelabelMaxLabel - 1)) \cup {NO_LABEL})}

\* A plausible slip: the fresh index is the map's length, not the length + 1
RelabelFreshIndexLen(n) == n

\* or_insert_with(|| n + 1)
RelabelFreshIndex(n) == n + 1

\* LabelReachable::relabel
Relabel(label) ==
    /\ rl_arg' = Some(label)
    /\ IF label = EPS_LABEL
       THEN /\ rl_res' = Some(EPS_LABEL)
            /\ UNCHANGED label2index
       ELSE LET n == Cardinality(DOMAIN label2index)
                next == IF label \in DOMAIN label2index
                        THEN label2index
                        ELSE [l \in DOMAIN label2index \cup {label} |->
                                 IF l = label THEN RelabelFreshIndex(n) ELSE label2index[l]]
            IN /\ label2index' = next
               /\ rl_res' = Some(next[label])
    /\ UNCHANGED <<interval_sets, final_label, reach_fst_input, r_arcs, r_call>>

InitRelabel ==
    /\ mode = "relabel"
    /\ ComposeIdle
    /\ AlgIdle
    /\ FactorIdle
    /\ FilterIdle
    /\ MatcherIdle
    /\ LafIdle
    /\ label2index \in Label2IndexAfterNew
    /\ interval_sets = <<>>
    /\ final_label = (IF NO_LABEL \in DOMAIN label2index THEN label2index[NO_LABEL] ELSE NO_LABEL)
    /\ reach_fst_input = FALSE
    /\ rl_arg = None /\ rl_res = None
    /\ r_arcs = <<>>
    /\ r_call = NoCall

RelabelCall ==
    \E label \in RelabelInputs : Relabel(label) /\ UNCHANGED <<mode, algVars, composeVars, filterVars, matcherVars, lafVars, factorVars>>

NextRelabel == RelabelCall

SpecRelabel == InitRelabel /\ [][NextRelabel]_vars

(* C6: over any sequence of relabel calls on the same data, relabel returns  *)
(* EPS for EPS, the stored index for a known label and a fresh index for an  *)
(* unseen one; it answers the same label with the same index every time,     *)
(* never answers EPS for a label other than EPS, and never gives two labels   *)
(* the same index.                                                            *)

C6_State ==
    /\ Injective(label2index)
    /\ \A l \in DOMAIN label2index : l # EPS_LABEL /\ label2index[l] >= 1
    /\ rl_arg # None =>
          IF Unwrap(rl_arg) = EPS_LABEL
          THEN rl_res = Some(EPS_LABEL)
          ELSE /\ Unwrap(rl_arg) \in DOMAIN label2index
               /\ rl_res = Some(label2index[Unwrap(rl_arg)])
               /\ Unwrap(rl_res) # EPS_LABEL

C6_Step ==
    /\ \A l \in DOMAIN label2index :
          l \in DOMAIN label2index' /\ label2index'[l] = label2index[l]
    /\ (rl_arg' # None /\ Unwrap(rl_arg') # EPS_LABEL /\ Unwrap(rl_arg') \notin DOMAIN label2index)
          => Unwrap(rl_res') \notin Range(label2index)

C6_RelabelInjective == [](mode = "relabel" => C6_State) /\ [][mode = "relabel" => C6_Step]_vars

\* Two labels unseen at construction have been relabelled, and a known label
\* has been asked again.
C6_Witness ==
    /\ mode = "relabel"
    /\ Cardinality(DOMAIN label2index) >= 4
    /\ {RelabelMaxLabel, NO_LABEL} \subseteq DOMAIN label2index
    /\ rl_arg = Some(1)
    /\ label2index[RelabelMaxLabel] > label2index[1]

----------------------------------------------------------------------------
(* LabelReachable::reach_label, reach and lower_bound *)

\* lib.rs: UNASSIGNED = usize::MAX
UNASSIGNED == 2147483647

\* Largest internal label index of the interval sets and the partner's arcs
ReachMaxIndex == 5
\* Largest number of arcs of the partner state
ReachMaxArcs == 3

ReachSemiring == "count"

Interval(b, e) == [begin |-> b, end |-> e]

\* IntervalSet::member
Member(iset, label) == \E i \in 1..Len(iset) : iset[i].begin <= label /\ label < iset[i].end

\* LabelReachableData::interval_set: Err for a state with no interval set
HasIntervalSet(s) == s + 1 \in 1..Len(interval_sets)
IntervalSetOf(s) == interval_sets[s + 1]

\* LabelReachable::reach_label on the interval set of the state
ReachLabel(iset, label) ==
    IF label = EPS_LABEL THEN FALSE ELSE Member(iset, label)

\* The label reach and lower_bound read from an arc; input is reach_fst_input
ReachArcLabel(input, arc) == IF input THEN arc.ilabel ELSE arc.olabel

\* A plausible slip: the upper bound of the search written as the lower one
RECURSIVE LowerBoundOffByOne(_, _, _, _, _)
LowerBoundOffByOne(input, arcs, low, high, match_label) ==
    IF low < high
    THEN LET mid == low + (high - low) \div 2
         IN IF ReachArcLabel(input, arcs[mid + 1]) <= match_label
            THEN LowerBoundOffByOne(input, arcs, mid + 1, high, match_label)
            ELSE LowerBoundOffByOne(input, arcs, low, mid, match_label)
    ELSE low

\* LabelReachable::lower_bound
RECURSIVE LowerBound(_, _, _, _, _)
LowerBound(input, arcs, low, high, match_label) ==
    IF low < high
    THEN LET mid == low + (high - low) \div 2
         IN IF ReachArcLabel(input, arcs[mid + 1]) < match_label
            THEN LowerBound(input, arcs, mid + 1, high, match_label)
            ELSE LowerBound(input, arcs, low, mid, match_label)
    ELSE low

ReachAcc(rb, re, w, rl) == [reach_begin |-> rb, reach_end |-> re, reach_weight |-> w, reach_label |-> rl]

\* The arc loop of reach (label_reachable.rs:315-334), from position pos
RECURSIVE ReachLinear(_, _, _, _, _, _, _)
ReachLinear(iset, input, arcs, pos, aiter_end, compute_weight, acc) ==
    IF pos >= aiter_end \/ pos >= Len(arcs)
    THEN acc
    ELSE LET arc == arcs[pos + 1]
             label == ReachArcLabel(input, arc)
         IN IF label = acc.reach_label \/ ReachLabel(iset, label)
            THEN ReachLinear(iset, input, arcs, pos + 1, aiter_end, compute_weight,
                     ReachAcc(IF acc.reach_begin = UNASSIGNED THEN pos ELSE acc.reach_begin,
                              pos + 1,
                              IF compute_weight
                              THEN Plus(ReachSemiring, acc.reach_weight, arc.weight)
                              ELSE acc.reach_weight,
                              label))
            ELSE ReachLinear(iset, input, arcs, pos + 1, aiter_end, compute_weight, acc)

\* The sum of the weights of arcs[lo .. hi - 1] added to w
RECURSIVE PlusRange(_, _, _, _)
PlusRange(arcs, lo, hi, w) ==
    IF lo >= hi THEN w
    ELSE PlusRange(arcs, lo + 1, hi, Plus(ReachSemiring, w, arcs[lo + 1].weight))

\* The interval loop of reach (label_reachable.rs:336-354), from interval k
RECURSIVE ReachIntervals(_, _, _, _, _, _, _, _)
ReachIntervals(iset, input, k, arcs, end_low, aiter_end, compute_weight, acc) ==
    IF k > Len(iset)
    THEN acc
    ELSE LET begin_low == LowerBound(input, arcs, end_low, aiter_end, iset[k].begin)
             new_end_low == LowerBound(input, arcs, begin_low, aiter_end, iset[k].end)
         IN IF new_end_low - begin_low > 0
            THEN ReachIntervals(iset, input, k + 1, arcs, new_end_low, aiter_end, compute_weight,
                     ReachAcc(IF acc.reach_begin = UNASSIGNED THEN begin_low ELSE acc.reach_begin,
                              new_end_low,
                              IF compute_weight
                              THEN PlusRange(arcs, begin_low, new_end_low, acc.reach_weight)
                              ELSE acc.reach_weight,
                              NO_LABEL))
            ELSE ReachIntervals(iset, input, k + 1, arcs, new_end_low, aiter_end, compute_weight, acc)

\* A plausible slip: the strategies chosen the other way round
ReachUsesLinearScanSwapped(n_arcs, n_intervals) == ~(2 * n_arcs < n_intervals)

\* The choice of strategy (label_reachable.rs:314)
ReachUsesLinearScan(n_arcs, n_intervals) == 2 * n_arcs < n_intervals

ReachStart == ReachAcc(UNASSIGNED, UNASSIGNED, Zero(ReachSemiring), NO_LABEL)

\* LabelReachable::reach on the interval set of the state: the strategy taken
\* and the value returned
ReachResult(iset, input, arcs, aiter_begin, aiter_end, compute_weight) ==
    LET linear == ReachUsesLinearScan(aiter_end - aiter_begin, Len(iset))
        acc == IF linear
               THEN ReachLinear(iset, input, arcs, aiter_begin, aiter_end, compute_weight, ReachStart)
               ELSE ReachIntervals(iset, input, 1, arcs, aiter_begin, aiter_end, compute_weight, ReachStart)
    IN [kind |-> IF acc.reach_begin # UNASSIGNED THEN "some" ELSE "none",
        strategy |-> IF linear THEN "linear" ELSE "intervals",
        begin |-> acc.reach_begin, end |-> acc.reach_end, weight |-> acc.reach_weight]

\* reach as a call: Err when the state has no interval set
Reach(s, aiter_begin, aiter_end, compute_weight) ==
    /\ r_call' = [state |-> s, aiter_begin |-> aiter_begin, aiter_end |-> aiter_end,
                  compute_weight |-> compute_weight,
                  res |-> IF HasIntervalSet(s)
                          THEN ReachResult(IntervalSetOf(s), reach_fst_input, r_arcs,
                                           aiter_begin, aiter_end, compute_weight)
                          ELSE [kind |-> "err"]]
    /\ UNCHANGED <<label2index, interval_sets, final_label, reach_fst_input, rl_arg, rl_res, r_arcs>>

\* Interval sets as state reachability leaves them: sorted, disjoint and
\* coalesced intervals over the indices 1 .. ReachMaxIndex
RECURSIVE IntervalsFrom(_, _)
IntervalsFrom(set, i) ==
    IF i > ReachMaxIndex THEN <<>>
    ELSE IF i \notin set THEN IntervalsFrom(set, i + 1)
    ELSE LET e == CHOOSE j \in (i + 1)..(ReachMaxIndex + 1) :
                     /\ \A x \in i..(j - 1) : x \in set
                     /\ j \notin set
         IN <<Interval(i, e)>> \o IntervalsFrom(set, e)

ReachIntervalSets == {IntervalsFrom(set, 1) : set \in SUBSET (1..ReachMaxIndex)}

\* Arc lists sorted on the reach label; the weight of the arc at position p is
\* 2^p, so a sum of weights names the arcs it was taken over; the label on the
\* other side runs against the order.
ReachLabelSeqs ==
    {q \in SeqsUpTo(0..ReachMaxIndex, ReachMaxArcs) :
        \A i \in 1..(Len(q) - 1) : q[i] <= q[i + 1]}

ReachArcList(q, input) ==
    [p \in 1..Len(q) |->
        IF input
        THEN ArcNew(q[p], ReachMaxIndex - q[p], 2 ^ (p - 1), 0)
        ELSE ArcNew(ReachMaxIndex - q[p], q[p], 2 ^ (p - 1), 0)]

InitReach ==
    /\ mode = "reach"
    /\ ComposeIdle
    /\ AlgIdle
    /\ FactorIdle
    /\ FilterIdle
    /\ MatcherIdle
    /\ LafIdle
    /\ label2index = <<>>
    /\ \E iset \in ReachIntervalSets : interval_sets = <<iset>>
    /\ final_label = NO_LABEL
    /\ reach_fst_input \in BOOLEAN
    /\ rl_arg = None /\ rl_res = None
    /\ \E q \in ReachLabelSeqs : r_arcs = ReachArcList(q, reach_fst_input)
    /\ r_call = NoCall

\* reach reads the reachability data and changes nothing: one call per
\* behaviour covers every call.
ReachCall ==
    /\ r_call = NoCall
    /\ \E s \in 0..1, b \in 0..Len(r_arcs), cw \in BOOLEAN :
          \E e \in b..Len(r_arcs) :
              Reach(s, b, e, cw) /\ UNCHANGED <<mode, algVars, composeVars, filterVars, matcherVars, lafVars, factorVars>>

NextReach == ReachCall

SpecReach == InitReach /\ [][NextReach]_vars

(* C7: for an arc list sorted on the reach label, reach returns None exactly  *)
(* when no arc at a position in [begin, end) has a label reachable from the   *)
(* state; otherwise it returns (rb, re, w) with begin <= rb < re <= end, rb   *)
(* the position of the first and re - 1 of the last reachable arc, and, when  *)
(* compute_weight is set, w the sum of the weights of exactly the reachable   *)
(* arcs; the linear scan runs exactly when 2 * (end - begin) is less than the *)
(* number of intervals.                                                       *)

ReachablePositions(s, arcs, b, e) ==
    {p \in b..(e - 1) : ReachArcLabel(reach_fst_input, arcs[p + 1]) # EPS_LABEL
                        /\ Member(IntervalSetOf(s), ReachArcLabel(reach_fst_input, arcs[p + 1]))}

RECURSIVE SumWeights(_, _, _)
SumWeights(sr, arcs, ps) ==
    IF ps = {} THEN Zero(sr)
    ELSE LET p == CHOOSE x \in ps : TRUE
         IN Plus(sr, arcs[p + 1].weight, SumWeights(sr, arcs, ps \ {p}))

MinOf(S) == CHOOSE x \in S : \A y \in S : x <= y
MaxOf(S) == CHOOSE x \in S : \A y \in S : y <= x

C7_ReachRange ==
    (mode = "reach" /\ r_call # NoCall /\ HasIntervalSet(r_call.state)) =>
        LET R == ReachablePositions(r_call.state, r_arcs, r_call.aiter_begin, r_call.aiter_end)
            res == r_call.res
        IN /\ res.kind \in {"none", "some"}
           /\ (res.kind = "none") <=> (R = {})
           /\ res.kind = "some" =>
                /\ r_call.aiter_begin <= res.begin
                /\ res.begin < res.end
                /\ res.end <= r_call.aiter_end
                /\ res.begin = MinOf(R)
                /\ res.end - 1 = MaxOf(R)
                /\ r_call.compute_weight => res.weight = SumWeights(ReachSemiring, r_arcs, R)
           /\ (res.strategy = "linear") <=>
                (2 * (r_call.aiter_end - r_call.aiter_begin) < Len(IntervalSetOf(r_call.state)))

\* The linear scan over one arc finds it reachable, and the interval scan
\* finds two reachable arcs with an unreachable one between them.
C7_Witness ==
    /\ mode = "reach" /\ r_call # NoCall /\ HasIntervalSet(r_call.state)
    /\ r_call.res.kind = "some"
    /\ r_call.res.strategy = "intervals"
    /\ r_call.compute_weight
    /\ r_call.res.end - r_call.res.begin = 3
    /\ Cardinality(ReachablePositions(r_call.state, r_arcs, r_call.aiter_begin, r_call.aiter_end)) = 2

C7_WitnessLinear ==
    /\ mode = "reach" /\ r_call # NoCall /\ HasIntervalSet(r_call.state)
    /\ r_call.res.kind = "some"
    /\ r_call.res.strategy = "linear"

----------------------------------------------------------------------------
(* LabelLookAheadMatcher *)

MatchTypes == {"MatchInput", "MatchOutput", "MatchBoth", "MatchNone", "MatchUnknown"}

\* The FstProperties bits reach_init tests
SortProps == {"I_LABEL_SORTED", "O_LABEL_SORTED"}

\* The MatcherFlags bits the look-ahead matcher and filter read
LookaheadBits == {"INPUT_LOOKAHEAD_MATCHER", "OUTPUT_LOOKAHEAD_MATCHER"}

\* The null pointer of lfst_ptr; the Rc allocations of FST1 and FST2 are 1, 2
NullPtr == 0
FstPtrs == {1, 2}

\* Most calls of one behaviour that clone a partner's Rc
MatcherMaxClones == 3

\* Arc::new(0, 0, W::one(), NO_STATE_ID), the cleared prefix arc
NoPrefixArc == ArcNew(0, 0, One(ReachSemiring), NO_STATE_ID)

\* LabelLookAheadMatcher::create_data: whether reachability data is built
CreateData(match_type, mft) ==
    LET reach_input == match_type = "MatchInput"
    IN \/ (reach_input /\ "INPUT_LOOKAHEAD_MATCHER" \in mft)
       \/ (~reach_input /\ "OUTPUT_LOOKAHEAD_MATCHER" \in mft)

\* LabelLookAheadMatcher::new_with_data. mft is MFT::flags(); data is None or
\* Some(reach_input of the data handed in). An empty record is the Err result.
NewWithData(match_type, mft, data) ==
    IF mft \cap LookaheadBits = {}
    THEN <<>>
    ELSE LET reach_input == match_type = "MatchInput"
         IN [match_type |-> match_type,
             mft |-> mft,
             reachable |-> IF data # None THEN reach_input = Unwrap(data)
                           ELSE CreateData(match_type, mft),
             reach_fst_input |-> FALSE,
             lookahead_weight |-> One(ReachSemiring),
             prefix_arc |-> NoPrefixArc,
             lfst_ptr |-> NullPtr]

\* Matcher::flags of the look-ahead matcher; the wrapped sorted matcher has
\* no flags
MatcherFlagsOf(m) ==
    IF m.reachable
    THEN m.mft \cup (IF m.match_type = "MatchInput"
                     THEN {"INPUT_LOOKAHEAD_MATCHER"}
                     ELSE {"OUTPUT_LOOKAHEAD_MATCHER"})
    ELSE {}

\* A plausible slip: the property of the matcher's own side
ReachInitPropSameSide(reach_input) ==
    IF reach_input THEN "O_LABEL_SORTED" ELSE "I_LABEL_SORTED"

\* LabelReachable::reach_init: the property the partner must carry
ReachInitProp(reach_input) ==
    IF reach_input THEN "I_LABEL_SORTED" ELSE "O_LABEL_SORTED"

\* LabelLookAheadMatcher::init_lookahead_fst on matcher m with the partner at
\* pointer p that carries props: the matcher it leaves and whether it is Ok.
\* lfst_ptr and reach_fst_input are assigned before the property is tested.
InitLookaheadFst(m, p, props) ==
    LET reach_input == m.match_type = "MatchOutput"
        m1 == [m EXCEPT !.lfst_ptr = p]
    IN IF m.reachable
       THEN [matcher |-> [m1 EXCEPT !.reach_fst_input = reach_input],
             ok |-> ReachInitProp(reach_input) \in props]
       ELSE [matcher |-> m1, ok |-> TRUE]

\* MFT::flags() of the matcher types the model builds
MatcherMfts ==
    {f \in SUBSET (LookaheadBits \cup {"LOOKAHEAD_WEIGHT", "LOOKAHEAD_PREFIX"}) :
        f \cap LookaheadBits # {}}

InitMatcher ==
    /\ mode = "matcher"
    /\ ComposeIdle
    /\ AlgIdle
    /\ FactorIdle
    /\ FilterIdle
    /\ LafIdle
    /\ ReachIdle
    /\ \E mt \in MatchTypes, mft \in MatcherMfts, data \in {None, Some(TRUE), Some(FALSE)} :
          matcher1 = NewWithData(mt, mft, data)
    /\ matcher2 = <<>>
    /\ fst2 = <<>>
    /\ fprops \in [1..2 -> SUBSET SortProps]
    /\ rc = <<1, 1>>
    /\ m_call = NoCall

\* init_lookahead_fst(lfst) with lfst the Rc at pointer p. Rc::into_raw of the
\* clone is never given back, so the strong count stays raised.
MatcherInitLookaheadFst ==
    \E p \in FstPtrs :
        /\ rc[p] <= MatcherMaxClones
        /\ LET r == InitLookaheadFst(matcher1, p, fprops[p])
           IN /\ matcher1' = r.matcher
              /\ m_call' = [kind |-> "init_lookahead_fst", lfst |-> p, ok |-> r.ok]
        /\ rc' = [rc EXCEPT ![p] = @ + 1]
        /\ UNCHANGED <<mode, algVars, composeVars, filterVars, reachVars, lafVars, factorVars, matcher2, fst2, fprops>>

NextMatcher == MatcherInitLookaheadFst

SpecMatcher == InitMatcher /\ [][NextMatcher]_vars

\* C8: init_lookahead_fst of a matcher with reachability data returns an error
\* exactly when the partner lacks the sort property of the complementary
\* label: I_LABEL_SORTED for a MatchOutput matcher, O_LABEL_SORTED for a
\* MatchInput matcher. A matcher without reachability data always succeeds.
C8_InitLookaheadFstSorted ==
    (mode = "matcher" /\ m_call.kind = "init_lookahead_fst") =>
        LET props == fprops[m_call.lfst]
            required == IF matcher1.match_type = "MatchOutput" THEN {"I_LABEL_SORTED"}
                        ELSE IF matcher1.match_type = "MatchInput" THEN {"O_LABEL_SORTED"}
                        ELSE {"O_LABEL_SORTED"}
        IN /\ matcher1.reachable => (m_call.ok <=> required \subseteq props)
           /\ ~matcher1.reachable => m_call.ok

\* A MatchOutput matcher with reachability data was refused a partner that is
\* sorted on output labels only.
C8_Witness ==
    /\ mode = "matcher"
    /\ m_call.kind = "init_lookahead_fst"
    /\ matcher1.match_type = "MatchOutput"
    /\ matcher1.reachable
    /\ fprops[m_call.lfst] = {"O_LABEL_SORTED"}
    /\ ~m_call.ok

----------------------------------------------------------------------------
(* LabelLookAheadMatcher::lookahead_fst *)

\* LookaheadMatcher::clear_lookahead_weight and clear_lookahead_prefix
ClearLookahead(m) ==
    [m EXCEPT !.lookahead_weight = One(ReachSemiring),
              !.prefix_arc = [@ EXCEPT !.nextstate = NO_STATE_ID]]

\* A plausible slip: the prefix stored although the final state is reached
LookaheadFstSetFinalPrefix(m0, r, arcs, lfinal, reach_final) ==
    LET reach_arc == r.kind = "some"
        prefix == /\ reach_arc
                  /\ "LOOKAHEAD_PREFIX" \in m0.mft
                  /\ r.end - r.begin = 1
        compute_weight == "LOOKAHEAD_WEIGHT" \in m0.mft /\ ~prefix
        w1 == IF reach_arc /\ ~prefix THEN r.weight ELSE m0.lookahead_weight
    IN [matcher |->
            [m0 EXCEPT !.prefix_arc = IF prefix THEN arcs[r.begin + 1] ELSE @,
                       !.lookahead_weight =
                           IF reach_final /\ compute_weight
                           THEN (IF reach_arc
                                 THEN Plus(ReachSemiring, w1, Unwrap(lfinal))
                                 ELSE Unwrap(lfinal))
                           ELSE w1],
        res |-> IF reach_arc \/ reach_final THEN "true" ELSE "false"]

\* lookahead_fst, lines 172-192: the matcher after the reach result r and
\* the final weight lfinal of the partner state, and the value returned
LookaheadFstSet(m0, r, arcs, lfinal, reach_final) ==
    LET reach_arc == r.kind = "some"
        prefix == /\ reach_arc
                  /\ "LOOKAHEAD_PREFIX" \in m0.mft
                  /\ r.end - r.begin = 1
                  /\ ~reach_final
        compute_weight == "LOOKAHEAD_WEIGHT" \in m0.mft /\ ~prefix
        w1 == IF reach_arc /\ ~prefix THEN r.weight ELSE m0.lookahead_weight
    IN [matcher |->
            [m0 EXCEPT !.prefix_arc = IF prefix THEN arcs[r.begin + 1] ELSE @,
                       !.lookahead_weight =
                           IF reach_final /\ compute_weight
                           THEN (IF reach_arc
                                 THEN Plus(ReachSemiring, w1, Unwrap(lfinal))
                                 ELSE Unwrap(lfinal))
                           ELSE w1],
        res |-> IF reach_arc \/ reach_final THEN "true" ELSE "false"]

\* lookahead_fst, lines 153-196, on the matcher m0 that the pointer test and
\* init_lookahead_fst left
LookaheadFstReach(m0, matcher_state, lfst, lfst_state) ==
    IF ~m0.reachable
    THEN [matcher |-> ClearLookahead(m0), res |-> "true"]
    ELSE IF ~StateExists(lfst, lfst_state) \/ ~HasIntervalSet(matcher_state)
    THEN [matcher |-> ClearLookahead(m0), res |-> "err"]
    ELSE LookaheadFstSet(
             ClearLookahead(m0),
             ReachResult(IntervalSetOf(matcher_state), m0.reach_fst_input,
                         lfst.arcs[lfst_state], 0, Len(lfst.arcs[lfst_state]),
                         "LOOKAHEAD_WEIGHT" \in m0.mft),
             lfst.arcs[lfst_state],
             lfst.final[lfst_state],
             /\ lfst.final[lfst_state] # None
             /\ ~IsZero(ReachSemiring, Unwrap(lfst.final[lfst_state]))
             /\ Member(IntervalSetOf(matcher_state), final_label))

\* lookahead_fst(matcher_state, lfst, lfst_state) on matcher m, with lfst the
\* Rc at pointer p carrying props; the reachability data is the shared
\* LabelReachableData (interval_sets, final_label). The result names the
\* matcher it leaves, the value returned ("true", "false", "err") and the
\* number of clones of the Rc it leaked.
LookaheadFst(m, matcher_state, p, lfst, props, lfst_state) ==
    IF p = m.lfst_ptr
    THEN [clones |-> 1] @@ LookaheadFstReach(m, matcher_state, lfst, lfst_state)
    ELSE IF ~InitLookaheadFst(m, p, props).ok
    THEN [matcher |-> InitLookaheadFst(m, p, props).matcher, res |-> "err", clones |-> 2]
    ELSE [clones |-> 2] @@ LookaheadFstReach(InitLookaheadFst(m, p, props).matcher,
                                              matcher_state, lfst, lfst_state)

----------------------------------------------------------------------------
(* LookAheadComposeFilter over the sequence filter *)

\* lookahead_match_type
LookaheadMatchType(m1, m2) ==
    IF m1.match_type = "MatchOutput" /\ "OUTPUT_LOOKAHEAD_MATCHER" \in MatcherFlagsOf(m1)
    THEN "MatchOutput"
    ELSE IF m2.match_type = "MatchInput" /\ "INPUT_LOOKAHEAD_MATCHER" \in MatcherFlagsOf(m2)
    THEN "MatchInput"
    ELSE "MatchNone"

\* selector: Selector::MatchOutput holds matcher1 and FST2, Selector::MatchInput
\* holds matcher2 and FST1
Selector(match_type, lookahead_type) ==
    IF match_type = "MatchInput" THEN "MatchInput"
    ELSE IF match_type = "MatchOutput" THEN "MatchOutput"
    ELSE IF lookahead_type = "MatchOutput" THEN "MatchOutput"
    ELSE "MatchInput"

\* A plausible slip: the input side tried first
LafLookaheadTypeInputFirst(match_type, m1, m2) ==
    IF match_type = "MatchBoth"
    THEN (IF m2.match_type = "MatchInput" /\ "INPUT_LOOKAHEAD_MATCHER" \in MatcherFlagsOf(m2)
          THEN "MatchInput"
          ELSE LookaheadMatchType(m1, m2))
    ELSE match_type

\* LookAheadComposeFilter::new, lines 103-107
LafLookaheadType(match_type, m1, m2) ==
    IF match_type = "MatchBoth" THEN LookaheadMatchType(m1, m2) ELSE match_type

\* LookAheadComposeFilter::lookahead_output
LookaheadOutput(match_type, lookahead_type) ==
    IF match_type = "MatchOutput" THEN TRUE
    ELSE IF match_type = "MatchInput" THEN FALSE
    ELSE lookahead_type = "MatchOutput"

\* LookAheadComposeFilter::new on the two matchers. The inner filter is built
\* first (its fields are those of SequenceComposeFilter::new); the selected
\* matcher's init_lookahead_fst runs on the shared matcher whether or not the
\* construction succeeds.
LafNew ==
    /\ laf_new = "none"
    /\ LET lookahead_type == LafLookaheadType(smt, matcher1, matcher2)
           flags == IF lookahead_type = "MatchOutput"
                    THEN MatcherFlagsOf(matcher1)
                    ELSE MatcherFlagsOf(matcher2)
           sel == Selector(smt, lookahead_type)
           r == IF sel = "MatchOutput"
                THEN InitLookaheadFst(matcher1, 2, fprops[2])
                ELSE InitLookaheadFst(matcher2, 1, fprops[1])
       IN IF lookahead_type = "MatchNone"
          THEN /\ laf_new' = "err"
               /\ UNCHANGED <<laf, matcher1, matcher2, rc>>
          ELSE /\ IF sel = "MatchOutput"
                  THEN /\ matcher1' = r.matcher
                       /\ rc' = [rc EXCEPT ![2] = @ + 1]
                       /\ UNCHANGED matcher2
                  ELSE /\ matcher2' = r.matcher
                       /\ rc' = [rc EXCEPT ![1] = @ + 1]
                       /\ UNCHANGED matcher1
               /\ IF r.ok
                  THEN /\ laf_new' = "ok"
                       /\ laf' = [lookahead_type |-> lookahead_type, flags |-> flags,
                                  lookahead_arc |-> FALSE, selector |-> sel]
                  ELSE /\ laf_new' = "err"
                       /\ UNCHANGED laf
    /\ UNCHANGED <<mode, algVars, composeVars, filterVars, reachVars, factorVars, fst2, fprops, m_call, smt, lfa, la_ret>>

\* LookAheadComposeFilter::set_state
LafSetState ==
    /\ laf_new = "ok"
    /\ \E ns1 \in 0..1, nfs \in FilterStateInputs : SetState(ns1, 0, nfs)
    /\ lfa' = NoCall
    /\ la_ret' = "none"
    /\ UNCHANGED <<mode, algVars, composeVars, reachVars, matcherVars, factorVars, smt, laf, laf_new>>

\* A plausible slip: the two flag tests exchanged
LookaheadDueSwapped(labela, flags) ==
    /\ ~(labela # EPS_LABEL /\ "LOOKAHEAD_EPSILONS" \notin flags)
    /\ ~(labela = EPS_LABEL /\ "LOOKAHEAD_NON_EPSILONS" \notin flags)

\* lookahead_filter_arc, lines 57-62: whether the look-ahead matcher is asked
LookaheadDue(labela, flags) ==
    /\ ~(labela # EPS_LABEL /\ "LOOKAHEAD_NON_EPSILONS" \notin flags)
    /\ ~(labela = EPS_LABEL /\ "LOOKAHEAD_EPSILONS" \notin flags)

\* Arcs passed to the look-ahead filter: an epsilon arc, a labelled arc and
\* the matchers' epsilon loop, all leading to state 0
LafArcLabels == {EPS_LABEL, 1, NO_LABEL}

LafArc1Inputs == {ArcNew(1, ol, 1, 0) : ol \in LafArcLabels}
LafArc2Inputs == {ArcNew(il, 1, 1, 0) : il \in LafArcLabels}

\* lookahead_filter_arc, lines 63-82: the selected matcher is asked
LafLookahead(inner, arca, arcb) ==
    \E r \in {IF laf.selector = "MatchOutput"
              THEN LookaheadFst(matcher1, arca.nextstate, 2, fst2, fprops[2], arcb.nextstate)
              ELSE LookaheadFst(matcher2, arca.nextstate, 1, fst1, fprops[1], arcb.nextstate)} :
        /\ laf' = [laf EXCEPT !.lookahead_arc = TRUE]
        /\ IF laf.selector = "MatchOutput"
           THEN /\ rc[2] + r.clones <= MatcherMaxClones + 1
                /\ matcher1' = r.matcher
                /\ rc' = [rc EXCEPT ![2] = @ + r.clones]
                /\ UNCHANGED matcher2
           ELSE /\ rc[1] + r.clones <= MatcherMaxClones + 1
                /\ matcher2' = r.matcher
                /\ rc' = [rc EXCEPT ![1] = @ + r.clones]
                /\ UNCHANGED matcher1
        /\ la_ret' = r.res
        /\ lfa' = IF r.res = "err" THEN [kind |-> "err"]
                  ELSE IF r.res = "true" THEN [kind |-> "ok", fs |-> inner]
                  ELSE [kind |-> "ok", fs |-> NO_STATE_ID]

\* lookahead_filter_arc on the inner filter's state
LookaheadFilterArc(inner, arca, arcb, labela) ==
    IF ~LookaheadDue(labela, laf.flags)
    THEN /\ laf' = [laf EXCEPT !.lookahead_arc = FALSE]
         /\ lfa' = [kind |-> "ok", fs |-> inner]
         /\ la_ret' = "none"
         /\ UNCHANGED <<matcher1, matcher2, rc>>
    ELSE LafLookahead(inner, arca, arcb)

\* LookAheadComposeFilter::filter_arc
LafFilterArc ==
    /\ laf_new = "ok"
    /\ \E a1 \in LafArc1Inputs, a2 \in LafArc2Inputs :
        /\ FilterArc(a1, a2)
        /\ \E inner \in {SeqFilterArc(a1, a2, fs, alleps1, noeps1)} :
              IF inner = NO_STATE_ID
              THEN /\ laf' = [laf EXCEPT !.lookahead_arc = FALSE]
                   /\ lfa' = [kind |-> "ok", fs |-> NO_STATE_ID]
                   /\ la_ret' = "none"
                   /\ UNCHANGED <<matcher1, matcher2, rc>>
              ELSE IF LookaheadOutput(smt, laf.lookahead_type)
              THEN LookaheadFilterArc(inner, a1, a2, a1.olabel)
              ELSE LookaheadFilterArc(inner, a2, a1, a2.ilabel)
    /\ UNCHANGED <<mode, algVars, composeVars, reachVars, factorVars, fst2, fprops, m_call, smt, laf_new>>

\* MFT::flags() of the matcher types handed to the look-ahead filter
LafMfts ==
    {f \in SUBSET (LookaheadBits \cup {"LOOKAHEAD_NON_EPSILONS", "LOOKAHEAD_EPSILONS"}) :
        f \cap LookaheadBits # {}}

\* Construction alone, over every pairing of matchers
InitLafNew ==
    /\ mode = "lafnew"
    /\ ComposeIdle
    /\ AlgIdle
    /\ FactorIdle
    /\ fst1 = <<>>
    /\ FilterInit
    /\ ReachIdle
    /\ smt \in {"MatchInput", "MatchOutput", "MatchBoth", "MatchNone"}
    /\ \E mt \in {"MatchInput", "MatchOutput", "MatchNone"}, mft \in LafMfts :
          matcher1 = NewWithData(mt, mft, None)
    /\ \E mt \in {"MatchInput", "MatchOutput", "MatchNone"}, mft \in LafMfts :
          matcher2 = NewWithData(mt, mft, None)
    /\ fst2 = <<>>
    /\ fprops \in [1..2 -> SUBSET SortProps]
    /\ rc = <<1, 1>>
    /\ m_call = NoCall
    /\ laf = <<>>
    /\ laf_new = "none"
    /\ lfa = NoCall
    /\ la_ret = "none"

NextLafNew == LafNew

SpecLafNew == InitLafNew /\ [][NextLafNew]_vars

\* The operands of the running look-ahead filter: FST1 sorted on output
\* labels, FST2 on input labels, both with a final second state
LafFinal(both) == [s \in 0..1 |-> IF s = 1 \/ both THEN Some(1) ELSE None]

LafFsts1 ==
    {MkFst(2, 0, adds, LafFinal(FALSE)) :
        adds \in {<<>>,
                  << <<0, ArcNew(1, EPS_LABEL, 1, 0)>> >>,
                  << <<0, ArcNew(1, 1, 1, 0)>> >>,
                  << <<0, ArcNew(1, EPS_LABEL, 1, 0)>>, <<0, ArcNew(1, 1, 1, 0)>> >>}}

LafFsts2 ==
    {MkFst(2, 0, <<>>, LafFinal(FALSE)),
     MkFst(2, 0, << <<0, ArcNew(1, 1, 1, 0)>> >>, LafFinal(FALSE)),
     MkFst(2, 0, << <<0, ArcNew(EPS_LABEL, 1, 1, 0)>>, <<0, ArcNew(1, 1, 1, 0)>> >>,
           LafFinal(TRUE))}

\* Reachability data of the selected matcher: none for state 0, nothing
\* reachable, label 1 reachable, label 1 and the final label reachable
LafFinalLabel == 2

LafIntervalSets ==
    {<<>>, << <<>> >>, << <<Interval(1, 2)>> >>, << <<Interval(1, LafFinalLabel + 1)>> >>}

LafRunMfts(side) ==
    {{side} \cup x : x \in SUBSET {"LOOKAHEAD_NON_EPSILONS", "LOOKAHEAD_EPSILONS"}}
        \cup {LookaheadBits \ {side}}

InitLaf ==
    /\ mode = "laf"
    /\ ComposeIdle
    /\ AlgIdle
    /\ FactorIdle
    /\ fst1 \in LafFsts1
    /\ FilterInit
    /\ label2index = <<>>
    /\ interval_sets \in LafIntervalSets
    /\ final_label = LafFinalLabel
    /\ reach_fst_input = FALSE
    /\ rl_arg = None /\ rl_res = None
    /\ r_arcs = <<>>
    /\ r_call = NoCall
    /\ smt \in {"MatchInput", "MatchOutput", "MatchBoth"}
    /\ \E mft \in LafRunMfts("OUTPUT_LOOKAHEAD_MATCHER") :
          matcher1 = NewWithData("MatchOutput", mft, None)
    /\ \E mft \in LafRunMfts("INPUT_LOOKAHEAD_MATCHER") :
          matcher2 = NewWithData("MatchInput", mft, None)
    /\ fst2 \in LafFsts2
    /\ fprops = <<{"O_LABEL_SORTED"}, {"I_LABEL_SORTED"}>>
    /\ rc = <<1, 1>>
    /\ m_call = NoCall
    /\ laf = <<>>
    /\ laf_new = "none"
    /\ lfa = NoCall
    /\ la_ret = "none"

NextLaf == LafNew \/ LafSetState \/ LafFilterArc

SpecLaf == InitLaf /\ [][NextLaf]_vars

\* C5: the look-ahead filter's filter_arc blocks exactly when the inner
\* filter blocks, or a look-ahead is due and lookahead_fst returned false;
\* otherwise it returns the inner filter's state. A look-ahead is due when the
\* label on the look-ahead side (a1.olabel on output, a2.ilabel on input) is
\* not epsilon and LOOKAHEAD_NON_EPSILONS is set, or is epsilon and
\* LOOKAHEAD_EPSILONS is set. lookahead_fst is called exactly when the inner
\* filter did not block and a look-ahead is due; its error is the call's.
C5_LookAheadFilterArc ==
    (mode = "laf" /\ lfa.kind # "none") =>
        LET inner == SeqFilterArc(q_arc1, q_arc2, fs, alleps1, noeps1)
            label == IF laf.selector = "MatchOutput" THEN q_arc1.olabel ELSE q_arc2.ilabel
            due == \/ (label # EPS_LABEL /\ "LOOKAHEAD_NON_EPSILONS" \in laf.flags)
                   \/ (label = EPS_LABEL /\ "LOOKAHEAD_EPSILONS" \in laf.flags)
        IN /\ (inner = NO_STATE_ID) => la_ret = "none"
           /\ (la_ret # "none") <=> (inner # NO_STATE_ID /\ due)
           /\ (lfa.kind = "err") <=> (la_ret = "err")
           /\ (lfa.kind = "ok") =>
                 /\ (lfa.fs = NO_STATE_ID) <=> (inner = NO_STATE_ID \/ (due /\ la_ret = "false"))
                 /\ (lfa.fs # NO_STATE_ID) => lfa.fs = inner
           /\ laf.lookahead_arc <=> (inner # NO_STATE_ID /\ due)

\* The inner filter accepted, the look-ahead was due and refused the pair
C5_Witness ==
    /\ mode = "laf"
    /\ lfa.kind = "ok"
    /\ SeqFilterArc(q_arc1, q_arc2, fs, alleps1, noeps1) # NO_STATE_ID
    /\ la_ret = "false"
    /\ lfa.fs = NO_STATE_ID

\* C9: with the selector match type MatchBoth, new fails when matcher1 is not
\* a MatchOutput matcher carrying OUTPUT_LOOKAHEAD_MATCHER and matcher2 is not
\* a MatchInput matcher carrying INPUT_LOOKAHEAD_MATCHER, and no filter is
\* built; when both qualify the output side, matcher1, is selected.
C9_NewSelectsSide ==
    (mode = "lafnew" /\ laf_new # "none" /\ smt = "MatchBoth") =>
        LET q1 == /\ matcher1.match_type = "MatchOutput"
                  /\ "OUTPUT_LOOKAHEAD_MATCHER" \in MatcherFlagsOf(matcher1)
            q2 == /\ matcher2.match_type = "MatchInput"
                  /\ "INPUT_LOOKAHEAD_MATCHER" \in MatcherFlagsOf(matcher2)
        IN /\ (~q1 /\ ~q2) => (laf_new = "err" /\ laf = <<>>)
           /\ (laf_new = "err") => laf = <<>>
           /\ (q1 /\ laf_new = "ok") =>
                 /\ laf.lookahead_type = "MatchOutput"
                 /\ laf.selector = "MatchOutput"
                 /\ laf.flags = MatcherFlagsOf(matcher1)
                 /\ matcher1.lfst_ptr = 2 /\ matcher2.lfst_ptr = NullPtr
           /\ (q1 /\ laf_new = "err") => "I_LABEL_SORTED" \notin fprops[2]
           /\ (~q1 /\ q2 /\ laf_new = "ok") =>
                 /\ laf.lookahead_type = "MatchInput"
                 /\ laf.selector = "MatchInput"
                 /\ matcher2.lfst_ptr = 1

\* Both sides qualify and the output side was selected
C9_Witness ==
    /\ mode = "lafnew" /\ smt = "MatchBoth" /\ laf_new = "ok"
    /\ matcher1.match_type = "MatchOutput"
    /\ "OUTPUT_LOOKAHEAD_MATCHER" \in MatcherFlagsOf(matcher1)
    /\ matcher2.match_type = "MatchInput"
    /\ "INPUT_LOOKAHEAD_MATCHER" \in MatcherFlagsOf(matcher2)
    /\ laf.selector = "MatchOutput"

\* Neither side qualifies and the construction failed
C9_WitnessNone ==
    /\ mode = "lafnew" /\ smt = "MatchBoth" /\ laf_new = "err"
    /\ matcher1.match_type # "MatchOutput"
    /\ matcher2.match_type # "MatchInput"

----------------------------------------------------------------------------
(* Cache state and the factor-weight kernel *)

\* CacheState::new
CacheStateNew == [arcs |-> <<>>, final_weight |-> None, flags |-> {}]

\* CacheState::expanded, has_final
CacheExpanded(cs) == "CACHE_ARCS" \in cs.flags
CacheHasFinal(cs) == "CACHE_FINAL" \in cs.flags

\* CacheState::mark_expanded
CacheMarkExpanded(cs) == [cs EXCEPT !.flags = @ \cup {"CACHE_ARCS"}]

\* CacheState::set_final_weight
CacheSetFinalWeight(cs, w) ==
    [cs EXCEPT !.final_weight = w, !.flags = @ \cup {"CACHE_FINAL"}]

\* CacheState::push_arc
CachePushArc(cs, arc) == [cs EXCEPT !.arcs = Append(@, arc)]

\* CacheState::reserve_arcs: capacity only
CacheReserveArcs(cs, n) == cs

\* CacheImpl: the vector of cache states grows to hold the state asked for
CacheResize(cache, n) ==
    [i \in 1..(IF n > Len(cache) THEN n ELSE Len(cache)) |->
        IF i <= Len(cache) THEN cache[i] ELSE CacheStateNew]

\* CacheImpl::push_arc(state, arc)
CacheImplPushArc(cache, state, arc) ==
    [CacheResize(cache, state + 1) EXCEPT ![state + 1] = CachePushArc(@, arc)]

\* Element::new
Element(state, weight) == [state |-> state, weight |-> weight]

\* FactorIterator::done. "identity" never factors; "string" peels one unit
\* off a weight of the (min, +) semiring, as StringFactor peels the first
\* label off a string of one repeated label.
FactorDone(fi, w) == fi = "identity" \/ w = TropicalInf \/ w <= 1

\* The pairs the iterator yields
FactorPairs(fi, w) == IF FactorDone(fi, w) THEN <<>> ELSE << <<1, w - 1>> >>

\* The denominator of KDELTA = 1 / 1024
QuantizeSteps == 1024

\* WeightQuantize::quantize(delta): the nearest multiple of delta
Quantize(w) ==
    IF w = TropicalInf THEN w
    ELSE ((2 * w * QuantizeSteps + 1) \div 2) \div QuantizeSteps

FactorArcWeights == "FACTOR_ARC_WEIGHTS" \in fw_opts.mode
FactorFinalWeights == "FACTOR_FINAL_WEIGHTS" \in fw_opts.mode

\* Position of an element in the state table, 0 if absent
TableIndex(table, elt) ==
    IF \E i \in 1..Len(table) : table[i] = elt
    THEN CHOOSE i \in 1..Len(table) : table[i] = elt
    ELSE 0

\* StateTable::find_id_from_ref on the kernel record k
FindId(k, elt) ==
    IF TableIndex(k.table, elt) # 0
    THEN [k |-> k, id |-> TableIndex(k.table, elt) - 1]
    ELSE [k |-> [k EXCEPT !.table = Append(@, elt)], id |-> Len(k.table)]

\* find_state without the lookup in the unfactored map
FindStateAlwaysNew(k, elt) ==
    IF ~FactorArcWeights /\ IsOne(fw_sr, elt.weight) /\ elt.state # None
    THEN [k |-> [k EXCEPT !.unfactored = (Unwrap(elt.state) :> Len(k.table)) @@ @,
                           !.table = Append(@, elt)],
          id |-> Len(k.table)]
    ELSE FindId(k, elt)

\* FactorWeightImpl::find_state
FindState(k, elt) ==
    IF ~FactorArcWeights /\ IsOne(fw_sr, elt.weight) /\ elt.state # None
    THEN IF Unwrap(elt.state) \in DOMAIN k.unfactored
         THEN [k |-> k, id |-> k.unfactored[Unwrap(elt.state)]]
         ELSE [k |-> [k EXCEPT !.unfactored = @ @@ (Unwrap(elt.state) :> Len(k.table)),
                                !.table = Append(@, elt)],
               id |-> Len(k.table)]
    ELSE FindId(k, elt)

\* cache_impl.push_arc(state, Arc::new(il, ol, w, dest)) with dest just found
PushDest(r, state, il, ol, w) ==
    [r.k EXCEPT !.cache = CacheImplPushArc(@, state, ArcNew(il, ol, w, r.id))]

\* The loop over the pairs of a factor iterator (lines 158-165 and 183-193);
\* di and do are the increments of the labels after every pair
RECURSIVE ExpandPairs(_, _, _, _, _, _, _, _)
ExpandPairs(k, state, il, ol, di, do, next, pairs) ==
    IF pairs = <<>> THEN k
    ELSE ExpandPairs(
             PushDest(FindState(k, Element(next, Quantize(Head(pairs)[2]))),
                      state, il, ol, Head(pairs)[1]),
             state, il + di, ol + do, di, do, next, Tail(pairs))

\* A plausible slip: the arc's own weight pushed, the residual dropped
ExpandArcArcWeight(k, state, weight, arc) ==
    IF ~FactorArcWeights \/ FactorDone(fw_fi, arc.weight)
    THEN PushDest(FindState(k, Element(Some(arc.nextstate), One(fw_sr))),
                  state, arc.ilabel, arc.olabel, arc.weight)
    ELSE ExpandPairs(k, state, arc.ilabel, arc.olabel, 0, 0, Some(arc.nextstate),
                     FactorPairs(fw_fi, arc.weight))

\* The body of the loop over the operand's arcs (lines 151-166)
ExpandArc(k, state, weight, arc) ==
    IF ~FactorArcWeights \/ FactorDone(fw_fi, weight)
    THEN PushDest(FindState(k, Element(Some(arc.nextstate), One(fw_sr))),
                  state, arc.ilabel, arc.olabel, weight)
    ELSE ExpandPairs(k, state, arc.ilabel, arc.olabel, 0, 0, Some(arc.nextstate),
                     FactorPairs(fw_fi, weight))

RECURSIVE ExpandArcs(_, _, _, _)
ExpandArcs(k, state, elt, arcs) ==
    IF arcs = <<>> THEN k
    ELSE ExpandArcs(ExpandArc(k, state, Times(fw_sr, elt.weight, Head(arcs).weight), Head(arcs)),
                    state, elt, Tail(arcs))

\* The weight whose factors become final arcs (lines 173-179)
ExpandFinalWeight(elt) ==
    IF elt.state = None THEN elt.weight
    ELSE Times(fw_sr, elt.weight,
               IF FinalWeight(fw_fst, Unwrap(elt.state)) = None THEN One(fw_sr)
               ELSE Unwrap(FinalWeight(fw_fst, Unwrap(elt.state))))

\* Lines 169-194
ExpandFinal(k, state, elt) ==
    IF FactorFinalWeights /\ (elt.state = None \/ IsFinal(fw_fst, Unwrap(elt.state)))
    THEN ExpandPairs(k, state, fw_opts.final_ilabel, fw_opts.final_olabel,
                     IF fw_opts.increment_final_ilabel THEN 1 ELSE 0,
                     IF fw_opts.increment_final_olabel THEN 1 ELSE 0,
                     None, FactorPairs(fw_fi, ExpandFinalWeight(elt)))
    ELSE k

\* FactorWeightImpl::expand
Expand(k, state) ==
    ExpandFinal(
        ExpandArcs(k, state, k.table[state + 1],
                   IF k.table[state + 1].state = None THEN <<>>
                   ELSE fw_fst.arcs[Unwrap(k.table[state + 1].state)]),
        state, k.table[state + 1])

\* FactorWeightImpl::compute_start
ComputeStart(k) ==
    IF fw_fst.start = None THEN [k |-> k, id |-> None]
    ELSE [k |-> FindState(k, Element(fw_fst.start, One(fw_sr))).k,
          id |-> Some(FindState(k, Element(fw_fst.start, One(fw_sr))).id)]

\* The weight compute_final tests (lines 214-220)
ComputeFinalWeight(elt) ==
    IF elt.state = None THEN elt.weight
    ELSE Times(fw_sr, elt.weight,
               IF FinalWeight(fw_fst, Unwrap(elt.state)) = None THEN Zero(fw_sr)
               ELSE Unwrap(FinalWeight(fw_fst, Unwrap(elt.state))))

\* compute_final without the test of the factor iterator
ComputeFinalNoDoneTest(k, state) ==
    IF ~IsZero(fw_sr, ComputeFinalWeight(k.table[state + 1]))
    THEN Some(ComputeFinalWeight(k.table[state + 1]))
    ELSE None

\* FactorWeightImpl::compute_final
ComputeFinal(k, state) ==
    IF /\ ~IsZero(fw_sr, ComputeFinalWeight(k.table[state + 1]))
       /\ (~FactorFinalWeights \/ FactorDone(fw_fi, ComputeFinalWeight(k.table[state + 1])))
    THEN Some(ComputeFinalWeight(k.table[state + 1]))
    ELSE None

\* FactorWeightImpl::new, the fields built
FactorWeightNew == [table |-> <<>>, unfactored |-> <<>>, cache |-> <<>>]

\* The lazy substrate's query for the arcs of a state: the kernel expands a
\* state that is not expanded yet, and the state is marked expanded
QueryArcs(k, state) ==
    IF state + 1 <= Len(k.cache) /\ CacheExpanded(k.cache[state + 1])
    THEN k
    ELSE [k EXCEPT !.cache =
             [CacheResize(Expand(k, state).cache, state + 1)
                 EXCEPT ![state + 1] = CacheMarkExpanded(@)],
           !.table = Expand(k, state).table,
           !.unfactored = Expand(k, state).unfactored]

\* The substrate's query for the final weight of a state
QueryFinal(k, state) ==
    IF state + 1 <= Len(k.cache) /\ CacheHasFinal(k.cache[state + 1])
    THEN k
    ELSE [k EXCEPT !.cache =
             [CacheResize(@, state + 1)
                 EXCEPT ![state + 1] = CacheSetFinalWeight(@, ComputeFinal(k, state))]]

\* FstImpl::compute: every state reachable from the start is queried for its
\* arcs and its final weight; the states are those of the state table
RECURSIVE ComputeLoop(_, _)
ComputeLoop(k, s) ==
    IF s >= Len(k.table) THEN k
    ELSE ComputeLoop(QueryFinal(QueryArcs(k, s), s), s + 1)

\* The FST compute builds from the kernel after the loop
ComputeFst(k, start) ==
    [n |-> Len(k.table), start |-> start,
     arcs |-> [s \in 0..(Len(k.table) - 1) |-> k.cache[s + 1].arcs],
     final |-> [s \in 0..(Len(k.table) - 1) |-> k.cache[s + 1].final_weight]]

\* A plausible slip: only the arc-weights bit tested
FactorWeightImplNewOkArcOnly(opts) == "FACTOR_ARC_WEIGHTS" \in opts.mode

\* FactorWeightImpl::new returns Ok unless opts.mode.is_empty()
FactorWeightImplNewOk(opts) == opts.mode # {}

\* factor_weight: the Err of FactorWeightImpl::new, else the computed FST
FactorWeightResult ==
    IF ~FactorWeightImplNewOk(fw_opts)
    THEN [kind |-> "err"]
    ELSE [kind |-> "ok",
          fst |-> ComputeFst(ComputeLoop(ComputeStart(FactorWeightNew).k, 0),
                             ComputeStart(FactorWeightNew).id)]

----------------------------------------------------------------------------
(* Operands and the weight of a string pair *)

\* States and arcs of the factor-weight operand
FactorStates == 3
FactorMaxArcs == 2

\* Arc weights; final weights of the states after the start
FactorWeights == {1, 2}
FactorFinals == {None, Some(3)}

\* The label of the final arcs when it is not epsilon
FactorFinalLabel == 9

\* The operands are acyclic: an arc leads to a later state
FactorAdds ==
    {<<p, ArcNew(1, 1, w, q)>> :
        p \in 0..(FactorStates - 2), q \in 1..(FactorStates - 1), w \in FactorWeights}

FactorAddKey(a) == (a[1] * FactorStates + a[2].nextstate) * 4 + a[2].weight

FactorAddSeqs ==
    {q \in SeqsUpTo({a \in FactorAdds : a[1] < a[2].nextstate}, FactorMaxArcs) :
        \A i \in 1..(Len(q) - 1) : FactorAddKey(q[i]) <= FactorAddKey(q[i + 1])}

FactorFsts ==
    {MkFst(FactorStates, Some(0), adds,
           [s \in 0..(FactorStates - 1) |-> IF s = 0 THEN None ELSE fin[s]]) :
        adds \in FactorAddSeqs, fin \in [1..(FactorStates - 1) -> FactorFinals]}
        \cup {MkFst(FactorStates, None, <<>>, [s \in 0..(FactorStates - 1) |-> None])}

\* The semiring sum of the weights of the accepting paths from state s that
\* read x and write z; the labels of skip are not part of the strings
RECURSIVE PathSum(_, _, _, _, _, _)
RECURSIVE ArcsSum(_, _, _, _, _, _, _)
PathSum(fst, sr, skip, s, x, z) ==
    Plus(sr,
         IF x = <<>> /\ z = <<>> /\ fst.final[s] # None THEN Unwrap(fst.final[s]) ELSE Zero(sr),
         ArcsSum(fst, sr, skip, fst.arcs[s], 1, x, z))

ArcsSum(fst, sr, skip, arcs, i, x, z) ==
    IF i > Len(arcs) THEN Zero(sr)
    ELSE Plus(sr,
              IF /\ (arcs[i].ilabel \in skip \/ (x # <<>> /\ Head(x) = arcs[i].ilabel))
                 /\ (arcs[i].olabel \in skip \/ (z # <<>> /\ Head(z) = arcs[i].olabel))
              THEN Times(sr, arcs[i].weight,
                         PathSum(fst, sr, skip, arcs[i].nextstate,
                                 IF arcs[i].ilabel \in skip THEN x ELSE Tail(x),
                                 IF arcs[i].olabel \in skip THEN z ELSE Tail(z)))
              ELSE Zero(sr),
              ArcsSum(fst, sr, skip, arcs, i + 1, x, z))

\* The weight an FST gives to the pair (x, z)
LangWeight(fst, sr, skip, x, z) ==
    IF fst.start = None THEN Zero(sr) ELSE PathSum(fst, sr, skip, Unwrap(fst.start), x, z)

\* FactorWeightOptions: every mode; the final labels epsilon, or not epsilon
\* with and without increments
FactorOpts ==
    {[mode |-> m, final_ilabel |-> l[1], final_olabel |-> l[1],
      increment_final_ilabel |-> l[2], increment_final_olabel |-> l[2]] :
        m \in SUBSET {"FACTOR_FINAL_WEIGHTS", "FACTOR_ARC_WEIGHTS"},
        l \in {<<EPS_LABEL, FALSE>>, <<FactorFinalLabel, FALSE>>, <<FactorFinalLabel, TRUE>>}}

\* The semirings and the factor iterators defined on them
FactorKinds ==
    {<<"tropical", "identity">>, <<"tropical", "string">>, <<"count", "identity">>}

InitFactor ==
    /\ mode = "factor"
    /\ ComposeIdle
    /\ AlgIdle
    /\ FilterIdle /\ ReachIdle /\ MatcherIdle /\ LafIdle
    /\ fw_fst \in FactorFsts
    /\ \E kind \in FactorKinds : fw_sr = kind[1] /\ fw_fi = kind[2]
    /\ fw_opts \in FactorOpts
    /\ fw = FactorWeightNew
    /\ marked = <<>>
    /\ c_op = NoCall
    /\ fw_out = None

\* factor_weight(fst_in, opts)
FactorWeightCall ==
    /\ fw_out = None
    /\ fw_out' = Some(FactorWeightResult)
    /\ UNCHANGED <<mode, algVars, composeVars, filterVars, reachVars, matcherVars, lafVars,
                   fw_fst, fw_sr, fw_opts, fw_fi, fw, marked, c_op>>

NextFactor == FactorWeightCall

SpecFactor == InitFactor /\ [][NextFactor]_vars

\* Strings of the operand's label
FactorStrings == SeqsUpTo({1}, FactorMaxArcs)

\* C10: for every non-empty mode, factor_weight(F) gives every pair of
\* strings the weight F gives it, the labels of the final arcs left out of
\* the strings; the empty mode is an error.
C10_FactorWeightLanguage ==
    (mode = "factor" /\ fw_out # None) =>
        IF fw_opts.mode = {}
        THEN Unwrap(fw_out).kind = "err"
        ELSE /\ Unwrap(fw_out).kind = "ok"
             /\ \A x \in FactorStrings, z \in FactorStrings :
                   LangWeight(Unwrap(fw_out).fst, fw_sr,
                              {EPS_LABEL, FactorFinalLabel, FactorFinalLabel + 1}, x, z)
                       = LangWeight(fw_fst, fw_sr, {EPS_LABEL}, x, z)

\* The scenario: one arc (1, 1, 2) from the start into a final state of weight
\* 3, final weights factored with the identity iterator: the pair (1, 1)
\* keeps the weight 5.
C10_Witness ==
    /\ mode = "factor"
    /\ fw_out # None
    /\ fw_sr = "tropical" /\ fw_fi = "identity"
    /\ fw_opts.mode = {"FACTOR_FINAL_WEIGHTS"}
    /\ fw_fst.arcs[0] = <<ArcNew(1, 1, 2, 1)>>
    /\ fw_fst.arcs[1] = <<>>
    /\ fw_fst.final[1] = Some(3)
    /\ Unwrap(fw_out).kind = "ok"
    /\ LangWeight(Unwrap(fw_out).fst, fw_sr, {EPS_LABEL}, <<1>>, <<1>>) = 5

\* A final weight was split into a chain of final arcs
C10_WitnessString ==
    /\ mode = "factor"
    /\ fw_out # None
    /\ fw_fi = "string"
    /\ fw_opts.mode = {"FACTOR_FINAL_WEIGHTS", "FACTOR_ARC_WEIGHTS"}
    /\ Unwrap(fw_out).kind = "ok"
    /\ Unwrap(fw_out).fst.n > FactorStates + 2
    /\ \E x \in FactorStrings : LangWeight(fw_fst, fw_sr, {EPS_LABEL}, x, x) = 5

\* C11: FactorWeightImpl::new, and with it factor_weight, returns an error
\* exactly when the mode holds neither FACTOR_ARC_WEIGHTS nor
\* FACTOR_FINAL_WEIGHTS; every non-empty mode succeeds.
C11_EmptyModeIsError ==
    (mode = "factor" /\ fw_out # None) =>
        (Unwrap(fw_out).kind = "err"
            <=> ("FACTOR_ARC_WEIGHTS" \notin fw_opts.mode
                 /\ "FACTOR_FINAL_WEIGHTS" \notin fw_opts.mode))

\* factor_weight succeeded with only the final weights factored
C11_Witness ==
    /\ mode = "factor"
    /\ fw_out # None
    /\ fw_opts.mode = {"FACTOR_FINAL_WEIGHTS"}
    /\ Unwrap(fw_out).kind = "ok"

\* factor_weight failed on the empty mode
C11_WitnessErr ==
    /\ mode = "factor"
    /\ fw_out # None
    /\ fw_opts.mode = {}
    /\ Unwrap(fw_out).kind = "err"

----------------------------------------------------------------------------
(* The cache states of a factor-weight kernel under every operation *)

\* Cache states the operations address, and the arcs one may hold
CacheMaxStates == 2
CacheMaxArcs == 2

CacheStates == 0..(CacheMaxStates - 1)

\* The operand of the scenario: one arc (1, 1, 2) into a final state of weight 3
CacheFst ==
    MkFst(2, Some(0), << <<0, ArcNew(1, 1, 2, 1)>> >>,
          [s \in 0..1 |-> IF s = 1 THEN Some(3) ELSE None])

\* The arcs of cache state s, empty when the cache has no entry for it
CacheArcs(k, s) == IF s + 1 <= Len(k.cache) THEN k.cache[s + 1].arcs ELSE <<>>

CacheIsExpanded(k, s) == s + 1 <= Len(k.cache) /\ CacheExpanded(k.cache[s + 1])

\* The arcs of the states that the step marks expanded for the first time
MarkedAfter(k) ==
    [s \in CacheStates |->
        IF marked[s] = None /\ CacheIsExpanded(k, s) THEN Some(CacheArcs(k, s))
        ELSE marked[s]]

InitCache ==
    /\ mode = "cache"
    /\ ComposeIdle
    /\ AlgIdle
    /\ FilterIdle /\ ReachIdle /\ MatcherIdle /\ LafIdle
    /\ fw_fst = CacheFst
    /\ fw_sr = "tropical"
    /\ fw_fi \in {"identity", "string"}
    /\ fw_opts \in {o \in FactorOpts : o.mode # {} /\ o.final_ilabel = EPS_LABEL
                                       /\ ~o.increment_final_ilabel}
    /\ fw = ComputeStart(FactorWeightNew).k
    /\ marked = [s \in CacheStates |-> None]
    /\ c_op = NoCall
    /\ fw_out = None

\* What every operation on the cache leaves alone
CacheFrame ==
    UNCHANGED <<mode, algVars, composeVars, filterVars, reachVars, matcherVars, lafVars,
                fw_fst, fw_sr, fw_opts, fw_fi, fw_out>>

\* The kernel after a step stays within the bounds of the model
CacheBounded(k) ==
    /\ Len(k.cache) <= CacheMaxStates
    /\ \A s \in CacheStates : Len(CacheArcs(k, s)) <= CacheMaxArcs

CachePushArcOp ==
    \E s \in CacheStates :
        /\ CacheBounded([fw EXCEPT !.cache = CacheImplPushArc(@, s, ArcNew(1, 1, 1, 0))])
        /\ fw' = [fw EXCEPT !.cache = CacheImplPushArc(@, s, ArcNew(1, 1, 1, 0))]
        /\ c_op' = [kind |-> "push_arc", state |-> s]
        /\ UNCHANGED marked
        /\ CacheFrame

CacheReserveArcsOp ==
    \E s \in CacheStates, n \in 0..CacheMaxArcs :
        /\ fw' = [fw EXCEPT !.cache =
                     [CacheResize(@, s + 1) EXCEPT ![s + 1] = CacheReserveArcs(@, n)]]
        /\ c_op' = [kind |-> "reserve_arcs", state |-> s]
        /\ UNCHANGED marked
        /\ CacheFrame

CacheSetFinalWeightOp ==
    \E s \in CacheStates, w \in {None, Some(1)} :
        /\ fw' = [fw EXCEPT !.cache =
                     [CacheResize(@, s + 1) EXCEPT ![s + 1] = CacheSetFinalWeight(@, w)]]
        /\ c_op' = [kind |-> "set_final_weight", state |-> s]
        /\ UNCHANGED marked
        /\ CacheFrame

CacheMarkExpandedOp ==
    \E s \in CacheStates :
        /\ fw' = [fw EXCEPT !.cache =
                     [CacheResize(@, s + 1) EXCEPT ![s + 1] = CacheMarkExpanded(@)]]
        /\ marked' = [marked EXCEPT ![s] = IF @ = None THEN Some(CacheArcs(fw, s)) ELSE @]
        /\ c_op' = [kind |-> "mark_expanded", state |-> s]
        /\ CacheFrame

\* arcs_iter and num_arcs read the arcs
CacheArcsIterOp ==
    \E s \in CacheStates :
        /\ c_op' = [kind |-> "arcs_iter", state |-> s, num_arcs |-> Len(CacheArcs(fw, s))]
        /\ UNCHANGED <<fw, marked>>
        /\ CacheFrame

\* FactorWeightImpl::expand called on a state of the state table
KernelExpandOp ==
    \E s \in CacheStates :
        /\ s < Len(fw.table)
        /\ CacheBounded(Expand(fw, s))
        /\ fw' = Expand(fw, s)
        /\ c_op' = [kind |-> "expand", state |-> s]
        /\ UNCHANGED marked
        /\ CacheFrame

\* The arcs of a state asked through the lazy FST
QueryArcsOp ==
    \E s \in CacheStates :
        /\ s < Len(fw.table)
        /\ CacheBounded(QueryArcs(fw, s))
        /\ fw' = QueryArcs(fw, s)
        /\ marked' = MarkedAfter(QueryArcs(fw, s))
        /\ c_op' = [kind |-> "query_arcs", state |-> s]
        /\ CacheFrame

NextCache ==
    \/ CachePushArcOp
    \/ CacheReserveArcsOp
    \/ CacheSetFinalWeightOp
    \/ CacheMarkExpandedOp
    \/ CacheArcsIterOp
    \/ KernelExpandOp
    \/ QueryArcsOp

SpecCache == InitCache /\ [][NextCache]_vars

\* C4: once a cache state is marked expanded, its ordered arc list stays as
\* it was at that moment, whatever operation follows.
C4_ExpandedArcsFrozen ==
    mode = "cache" =>
        \A s \in CacheStates :
            marked[s] # None => CacheArcs(fw, s) = Unwrap(marked[s])

----------------------------------------------------------------------------
(* Composition: the engine of spec 4.L over the sequence filter and two      *)
(* sorted matchers                                                           *)

\* A plausible slip: the loops of the two match types exchanged
EpsLoopSwapped(state, match_type, sr) ==
    IF match_type = "MatchInput" THEN ArcNew(EPS_LABEL, NO_LABEL, One(sr), state)
    ELSE IF match_type = "MatchOutput" THEN ArcNew(NO_LABEL, EPS_LABEL, One(sr), state)
    ELSE <<>>

\* eps_loop(state, match_type), which IterItemMatcher::into_arc returns for
\* an EpsLoop item; <<>> stands for the Err of the other match types
EpsLoop(state, match_type, sr) ==
    IF match_type = "MatchInput" THEN ArcNew(NO_LABEL, EPS_LABEL, One(sr), state)
    ELSE IF match_type = "MatchOutput" THEN ArcNew(EPS_LABEL, NO_LABEL, One(sr), state)
    ELSE <<>>

\* The label a matcher of the given type compares
MatchLabel(arc, match_type) ==
    IF match_type = "MatchInput" THEN arc.ilabel ELSE arc.olabel

RECURSIVE MatchingArcs(_, _, _)
MatchingArcs(arcs, match_type, label) ==
    IF arcs = <<>> THEN <<>>
    ELSE (IF MatchLabel(Head(arcs), match_type) = label THEN <<Head(arcs)>> ELSE <<>>)
         \o MatchingArcs(Tail(arcs), match_type, label)

\* SortedMatcher::iter(state, label), every item turned into an arc: the
\* epsilon loop first when epsilon is asked for, then the arcs of the state
\* whose matched label is the label; a query for NO_LABEL (the engine's own
\* loop) is answered by the epsilon arcs
SortedIter(fst, match_type, state, label, sr) ==
    (IF label = EPS_LABEL THEN <<EpsLoop(state, match_type, sr)>> ELSE <<>>)
    \o MatchingArcs(fst.arcs[state], match_type,
                    IF label = NO_LABEL THEN EPS_LABEL ELSE label)

\* SortedMatcher::priority: the number of arcs of the state
SortedPriority(fst, s) == NumArcs(fst, s)

\* The matching side: TRUE when the arcs of FST1 are iterated and matcher 2
\* is queried
ComposeMatchInput(t) == SortedPriority(fst1, t[1]) <= SortedPriority(fst2, t[2])

\* ComposeFstImpl::new: an empty state table and an empty cache
ComposeNew == [table |-> <<>>, cache |-> <<>>, has_start |-> FALSE, start |-> None]

\* Step 4: a pair the filter lets through becomes an arc to the state of the
\* tuple (a1.nextstate, a2.nextstate, fs')
ComposeEmit(k, s, a1, a2, nfs) ==
    IF nfs = NO_STATE_ID THEN k
    ELSE PushDest(FindId(k, <<a1.nextstate, a2.nextstate, nfs>>),
                  s, a1.ilabel, a2.olabel, Times(cm_sr, a1.weight, a2.weight))

\* Step 4: filter_arc on a candidate pair; f holds the filter's fields
ComposeAddArc(k, s, a1, a2, f) ==
    ComposeEmit(k, s, a1, a2, SeqFilterArc(a1, a2, f.fs, f.alleps1, f.noeps1))

\* Step 3: the items the queried matcher returns for one iterated arc
RECURSIVE ComposeMatchArc(_, _, _, _, _, _)
ComposeMatchArc(k, s, items, arc, match_input, f) ==
    IF items = <<>> THEN k
    ELSE ComposeMatchArc(
             IF match_input THEN ComposeAddArc(k, s, arc, Head(items), f)
             ELSE ComposeAddArc(k, s, Head(items), arc, f),
             s, Tail(items), arc, match_input, f)

\* Step 3: the iterated arcs, each with the joining label asked of the other
\* matcher
RECURSIVE ComposeArcs(_, _, _, _, _, _)
ComposeArcs(k, s, t, arcsb, match_input, f) ==
    IF arcsb = <<>> THEN k
    ELSE ComposeArcs(
             ComposeMatchArc(
                 k, s,
                 IF match_input
                 THEN SortedIter(fst2, "MatchInput", t[2], Head(arcsb).olabel, cm_sr)
                 ELSE SortedIter(fst1, "MatchOutput", t[1], Head(arcsb).ilabel, cm_sr),
                 Head(arcsb), match_input, f),
             s, t, Tail(arcsb), match_input, f)

\* Step 3: the loop that holds the iterated side at epsilon, then its arcs
ComposeIterated(t, match_input) ==
    IF match_input
    THEN <<EpsLoop(t[1], "MatchOutput", cm_sr)>> \o fst1.arcs[t[1]]
    ELSE <<EpsLoop(t[2], "MatchInput", cm_sr)>> \o fst2.arcs[t[2]]

\* Step 5: the product of the final weights; filter_final of the sequence
\* filter changes nothing
ComposeFinalWeight(t) ==
    IF IsFinal(fst1, t[1]) /\ IsFinal(fst2, t[2])
    THEN Some(Times(cm_sr, Unwrap(FinalWeight(fst1, t[1])), Unwrap(FinalWeight(fst2, t[2]))))
    ELSE None

\* Steps 5 and 6 on the kernel the arcs were pushed into
ComposeClose(k, s, t) ==
    [k EXCEPT !.cache =
        [CacheResize(@, s + 1) EXCEPT
            ![s + 1] = CacheMarkExpanded(CacheSetFinalWeight(@, ComposeFinalWeight(t)))]]

\* expand(s), after filter.set_state has left the fields f in the filter
ComposeExpand(k, s, f) ==
    ComposeClose(
        ComposeArcs(k, s, k.table[s + 1],
                    ComposeIterated(k.table[s + 1], ComposeMatchInput(k.table[s + 1])),
                    ComposeMatchInput(k.table[s + 1]), f),
        s, k.table[s + 1])

\* The start state: the tuple (start1, start2, filter.start()) gets id 0
ComposeStartOf(k) ==
    IF fst1.start = None \/ fst2.start = None
    THEN [k EXCEPT !.has_start = TRUE]
    ELSE [FindId(k, <<Unwrap(fst1.start), Unwrap(fst2.start), 0>>).k EXCEPT
             !.has_start = TRUE,
             !.start = Some(FindId(k, <<Unwrap(fst1.start), Unwrap(fst2.start), 0>>).id)]

ComposeIsExpanded(k, s) == s + 1 <= Len(k.cache) /\ CacheExpanded(k.cache[s + 1])

\* Every state of the state table has been expanded
ComposeComplete(k) ==
    /\ k.has_start
    /\ \A s \in 0..(Len(k.table) - 1) : ComposeIsExpanded(k, s)

\* The composition as an FST, once complete
ComposeFstOf(k) ==
    [n |-> Len(k.table), start |-> k.start,
     arcs |-> [s \in 0..(Len(k.table) - 1) |-> k.cache[s + 1].arcs],
     final |-> [s \in 0..(Len(k.table) - 1) |-> k.cache[s + 1].final_weight]]

----------------------------------------------------------------------------
(* The operands of the composition *)

\* States of FST1 (FST2 has one fewer) and arcs of an operand
ComposeStates == 3
ComposeMaxArcs == 2

\* (ilabel, olabel, weight) of the arcs of FST1 and of FST2; FST1 writes and
\* FST2 reads epsilon or the label 2
ComposeShapes1 == {<<1, EPS_LABEL, 1>>, <<EPS_LABEL, 2, 2>>, <<1, 2, 3>>}
ComposeShapes2 == {<<2, 3, 5>>, <<EPS_LABEL, 3, 4>>}

\* The operands are chains: an arc leads to the next state
ComposeAdds(shapes, n) ==
    {<<p, ArcNew(sh[1], sh[2], sh[3], p + 1)>> : p \in 0..(n - 2), sh \in shapes}

\* FST1 is sorted on output labels and FST2 on input labels, as the sorted
\* matchers require
ComposeAddKey(a, match_type) == a[1] * 4 + MatchLabel(a[2], match_type)

ComposeAddSeqs(shapes, n, match_type) ==
    {q \in SeqsUpTo(ComposeAdds(shapes, n), ComposeMaxArcs) :
        \A i \in 1..(Len(q) - 1) :
            ComposeAddKey(q[i], match_type) <= ComposeAddKey(q[i + 1], match_type)}

\* The last state is final, or every state is when alls allows it; the
\* final weight is One
ComposeFsts(shapes, n, match_type, sr, alls) ==
    {MkFst(n, Some(0), adds,
           [s \in 0..(n - 1) |-> IF all \/ s = n - 1 THEN Some(One(sr)) ELSE None]) :
        adds \in ComposeAddSeqs(shapes, n, match_type), all \in alls}

\* An FST without a start state
ComposeNoStart(n) == MkFst(n, None, <<>>, [s \in 0..(n - 1) |-> None])

ComposeFsts1(sr) ==
    ComposeFsts(ComposeShapes1, ComposeStates, "MatchOutput", sr, BOOLEAN)
        \cup {ComposeNoStart(ComposeStates)}

ComposeFsts2(sr) ==
    ComposeFsts(ComposeShapes2, ComposeStates - 1, "MatchInput", sr, {FALSE})

InitCompose ==
    /\ mode = "compose"
    /\ cm_sr \in {"count", "tropical"}
    /\ fst1 \in ComposeFsts1(cm_sr)
    /\ fst2 \in ComposeFsts2(cm_sr)
    /\ FilterInit
    /\ cm = ComposeNew
    /\ matcher1 = <<>> /\ matcher2 = <<>>
    /\ fprops = <<>>
    /\ rc = <<>>
    /\ m_call = NoCall
    /\ ReachIdle /\ LafIdle /\ FactorIdle /\ AlgIdle

\* The first query for the start state
ComposeStartOp ==
    /\ ~cm.has_start
    /\ cm' = ComposeStartOf(cm)
    /\ UNCHANGED <<mode, algVars, cm_sr, filterVars, reachVars, matcherVars, lafVars, factorVars>>

\* The first query for the arcs of a state of the state table: set_state on
\* the filter, then the expansion with the fields set_state left
ComposeExpandOp ==
    /\ cm.has_start
    /\ \E s \in 0..(Len(cm.table) - 1) :
        /\ ~ComposeIsExpanded(cm, s)
        /\ SetState(cm.table[s + 1][1], cm.table[s + 1][2], cm.table[s + 1][3])
        /\ cm' = ComposeExpand(cm, s, [fs |-> fs', alleps1 |-> alleps1', noeps1 |-> noeps1'])
    /\ UNCHANGED <<mode, algVars, cm_sr, reachVars, matcherVars, lafVars, factorVars>>

NextCompose == ComposeStartOp \/ ComposeExpandOp

SpecCompose == InitCompose /\ [][NextCompose]_vars

----------------------------------------------------------------------------
(* C1: once every state of the composition is expanded, the weight it gives  *)
(* to every pair (x, z) is the semiring sum over the intermediate strings y  *)
(* of A(x, y) times B(y, z): no path is lost and none is counted twice.      *)

\* The strings over one label up to the length of the longest path of an
\* operand
ComposeStrings(l) == SeqsUpTo({l}, ComposeStates - 1)

ComposeTerm(a, b, sr, x, y, z) ==
    Times(sr, LangWeight(a, sr, {EPS_LABEL}, x, y), LangWeight(b, sr, {EPS_LABEL}, y, z))

RECURSIVE ComposeSumOver(_, _, _, _, _, _)
ComposeSumOver(ys, a, b, sr, x, z) ==
    IF ys = {} THEN Zero(sr)
    ELSE Plus(sr, ComposeTerm(a, b, sr, x, CHOOSE y \in ys : TRUE, z),
              ComposeSumOver(ys \ {CHOOSE y \in ys : TRUE}, a, b, sr, x, z))

HasLabel(fst, match_type, l) ==
    \E s \in 0..(fst.n - 1) : \E i \in 1..Len(fst.arcs[s]) :
        MatchLabel(fst.arcs[s][i], match_type) = l

----------------------------------------------------------------------------
(* C3: with the sequence filter every pair of matching accepting paths of    *)
(* the operands is exactly one accepting path of the composition; for        *)
(* A = (1, eps, 0.1) then (eps, 2, 0.2) and B = (2, 3, 0.5), weights in      *)
(* tenths, the composition accepts (1, 3) with weight 0.8 on its only        *)
(* accepting path.                                                           *)

\* The number of accepting paths from a state
RECURSIVE PathCount(_, _)
RECURSIVE ArcsCount(_, _, _)
PathCount(fst, s) ==
    (IF fst.final[s] # None THEN 1 ELSE 0) + ArcsCount(fst, fst.arcs[s], 1)

ArcsCount(fst, arcs, i) ==
    IF i > Len(arcs) THEN 0
    ELSE PathCount(fst, arcs[i].nextstate) + ArcsCount(fst, arcs, i + 1)

\* The number of accepting paths from a state that spell y on the side a
\* matcher of the given type reads
RECURSIVE SidePaths(_, _, _, _)
RECURSIVE SideArcs(_, _, _, _, _)
SidePaths(fst, match_type, s, y) ==
    (IF y = <<>> /\ fst.final[s] # None THEN 1 ELSE 0)
        + SideArcs(fst, match_type, fst.arcs[s], 1, y)

SideArcs(fst, match_type, arcs, i, y) ==
    IF i > Len(arcs) THEN 0
    ELSE (IF MatchLabel(arcs[i], match_type) = EPS_LABEL
          THEN SidePaths(fst, match_type, arcs[i].nextstate, y)
          ELSE IF y # <<>> /\ Head(y) = MatchLabel(arcs[i], match_type)
          THEN SidePaths(fst, match_type, arcs[i].nextstate, Tail(y))
          ELSE 0)
         + SideArcs(fst, match_type, arcs, i + 1, y)

FstPaths(fst) == IF fst.start = None THEN 0 ELSE PathCount(fst, Unwrap(fst.start))

FstSidePaths(fst, match_type, y) ==
    IF fst.start = None THEN 0 ELSE SidePaths(fst, match_type, Unwrap(fst.start), y)

\* The pairs of an accepting path of A and an accepting path of B that
\* spell the same intermediate string
RECURSIVE MatchedPaths(_, _, _)
MatchedPaths(ys, a, b) ==
    IF ys = {} THEN 0
    ELSE FstSidePaths(a, "MatchOutput", CHOOSE y \in ys : TRUE)
            * FstSidePaths(b, "MatchInput", CHOOSE y \in ys : TRUE)
         + MatchedPaths(ys \ {CHOOSE y \in ys : TRUE}, a, b)

\* The operands of the scenario, weights in tenths
ScenarioA ==
    MkFst(3, Some(0), << <<0, ArcNew(1, EPS_LABEL, 1, 1)>>, <<1, ArcNew(EPS_LABEL, 2, 2, 2)>> >>,
          [s \in 0..2 |-> IF s = 2 THEN Some(0) ELSE None])

ScenarioB ==
    MkFst(2, Some(0), << <<0, ArcNew(2, 3, 5, 1)>> >>,
          [s \in 0..1 |-> IF s = 1 THEN Some(0) ELSE None])

C3_WitnessBoth ==
    /\ mode = "compose"
    /\ ComposeComplete(cm)
    /\ fst1.start # None
    /\ \E i \in 1..Len(fst1.arcs[0]) : fst1.arcs[0][i].olabel = EPS_LABEL
    /\ \E i \in 1..Len(fst2.arcs[0]) : fst2.arcs[0][i].ilabel = EPS_LABEL
    /\ FstPaths(ComposeFstOf(cm)) >= 1

----------------------------------------------------------------------------
(* reweight *)

\* potentials.get(s).unwrap_or(&zero)
RwPotential(sr, potentials, s) ==
    IF s + 1 <= Len(potentials) THEN potentials[s + 1] ELSE Zero(sr)

\* A plausible slip: the source potential multiplied in, not divided out
RwArcWeightTimes(sr, w, d_s, d_ns, reweight_type) ==
    IF reweight_type = "ReweightToInitial"
    THEN Times(sr, Times(sr, w, d_ns), d_s)
    ELSE Times(sr, Times(sr, d_s, w), d_ns)

\* The new weight of an arc (lines 63-70)
RwArcWeight(sr, w, d_s, d_ns, reweight_type) ==
    IF reweight_type = "ReweightToInitial"
    THEN Divide(sr, Times(sr, w, d_ns), d_s)
    ELSE Divide(sr, Times(sr, d_s, w), d_ns)

\* The body of the loop over the arcs of a state (lines 57-70)
RwArc(sr, arc, d_s, d_ns, reweight_type) ==
    IF IsZero(sr, d_ns) THEN arc
    ELSE [arc EXCEPT !.weight = RwArcWeight(sr, @, d_s, d_ns, reweight_type)]

\* A plausible slip: the last potential taken to be past the end
RwPastEndOffByOne(state, potentials) == state + 1 >= Len(potentials)

\* The test for a state past the end of the potentials (line 37)
RwPastEnd(state, potentials) == state >= Len(potentials)

\* The arcs of a state after the first loop (lines 35-72)
RwStateArcs(sr, arcs, potentials, reweight_type, state) ==
    IF RwPastEnd(state, potentials) \/ IsZero(sr, RwPotential(sr, potentials, state))
    THEN arcs
    ELSE [i \in 1..Len(arcs) |->
             RwArc(sr, arcs[i], RwPotential(sr, potentials, state),
                   RwPotential(sr, potentials, arcs[i].nextstate), reweight_type)]

\* The final weight of a state after the first loop (lines 37-48)
RwStateFinal(sr, final, potentials, reweight_type, state) ==
    IF RwPastEnd(state, potentials) /\ reweight_type = "ReweightToFinal" /\ final # None
    THEN Some(Times(sr, Zero(sr), Unwrap(final)))
    ELSE final

\* A plausible slip: the final weight multiplied in both directions
RwFinalTimesBoth(sr, final, d_s, reweight_type) ==
    IF final = None THEN None
    ELSE Some(Times(sr, Unwrap(final), d_s))

\* The final weight of a state after the second loop (lines 74-90)
RwFinal(sr, final, d_s, reweight_type) ==
    IF final = None THEN None
    ELSE IF reweight_type = "ReweightToFinal" THEN Some(Times(sr, Unwrap(final), d_s))
    ELSE IF IsZero(sr, d_s) THEN final
    ELSE Some(Divide(sr, Unwrap(final), d_s))

\* The two loops over the states (lines 35-90)
RwLoops(sr, f, potentials, reweight_type) ==
    [f EXCEPT
        !.arcs = [s \in 0..(f.n - 1) |->
                     RwStateArcs(sr, f.arcs[s], potentials, reweight_type, s)],
        !.final = [s \in 0..(f.n - 1) |->
                     RwFinal(sr, RwStateFinal(sr, f.final[s], potentials, reweight_type, s),
                             RwPotential(sr, potentials, s), reweight_type)]]

\* The weight the start state's arcs and final weight get (lines 98-112)
RwStartWeight(sr, d_s, w, reweight_type) ==
    IF reweight_type = "ReweightToInitial" THEN Times(sr, d_s, w)
    ELSE Times(sr, Divide(sr, One(sr), d_s), w)

\* The potential of the start state handled (lines 93-117)
RwStart(sr, f, d_s, reweight_type) ==
    IF IsOne(sr, d_s) \/ IsZero(sr, d_s) THEN f
    ELSE [f EXCEPT
            !.arcs[Unwrap(f.start)] =
                [i \in 1..Len(@) |->
                    [@[i] EXCEPT !.weight = RwStartWeight(sr, d_s, @, reweight_type)]],
            !.final[Unwrap(f.start)] =
                IF @ = None THEN None
                ELSE Some(RwStartWeight(sr, d_s, Unwrap(@), reweight_type))]

\* reweight(fst, potentials, reweight_type): the FST it leaves
Reweight(sr, f, potentials, reweight_type) ==
    IF f.n = 0 THEN f
    ELSE IF f.start = None THEN RwLoops(sr, f, potentials, reweight_type)
    ELSE RwStart(sr, RwLoops(sr, f, potentials, reweight_type),
                 RwPotential(sr, potentials, Unwrap(f.start)), reweight_type)

\* States and arcs of the operand
RwStates == 3
RwMaxArcs == 3

\* An arc leads to the next state or back to the start state
RwAdds ==
    {<<p, ArcNew(1, 1, 1, q)>> : p \in 0..(RwStates - 1), q \in 0..(RwStates - 1)}

RwAddKey(a) == a[1] * RwStates + a[2].nextstate

RwAddSeqs ==
    {q \in SeqsUpTo({a \in RwAdds : a[2].nextstate = a[1] + 1 \/ a[2].nextstate = 0},
                    RwMaxArcs) :
        \A i \in 1..(Len(q) - 1) : RwAddKey(q[i]) <= RwAddKey(q[i + 1])}

\* The final states: the last state, the start state, or every state
RwIsFinal(kind, s) ==
    kind = "all" \/ (kind = "last" /\ s = RwStates - 1) \/ (kind = "start" /\ s = 0)

\* The operands, and the FST without states
RwFsts ==
    {MkFst(RwStates, Some(0), adds,
           [s \in 0..(RwStates - 1) |-> IF RwIsFinal(kind, s) THEN Some(1) ELSE None]) :
        adds \in RwAddSeqs, kind \in {"last", "start", "all"}}
        \cup {MkFst(0, None, <<>>, <<>>)}

\* Potentials: one per state, or the last state's missing
RwPotentials ==
    UNION {[1..j -> {Zero("ztropical"), One("ztropical"), 2}] : j \in {RwStates - 1, RwStates}}

RwTypes == {"ReweightToInitial", "ReweightToFinal"}

InitReweight ==
    /\ mode = "reweight"
    /\ alg_in \in RwFsts
    /\ alg_arg \in [sr : {"ztropical"}, potentials : RwPotentials, reweight_type : RwTypes]
    /\ alg_fst = alg_in
    /\ alg_res = "none"
    /\ FilterIdle /\ ReachIdle /\ MatcherIdle /\ LafIdle /\ FactorIdle /\ ComposeIdle

ReweightCall ==
    /\ alg_res = "none"
    /\ alg_fst' = Reweight(alg_arg.sr, alg_fst, alg_arg.potentials, alg_arg.reweight_type)
    /\ alg_res' = "ok"
    /\ UNCHANGED <<mode, alg_in, alg_arg, filterVars, reachVars, matcherVars, lafVars,
                   factorVars, composeVars>>

NextReweight == ReweightCall

SpecReweight == InitReweight /\ [][NextReweight]_vars

\* The potential of the start state is One and so is that of every final
\* state
RwStartAndFinalsOne ==
    /\ alg_in.start # None
    /\ IsOne(alg_arg.sr, RwPotential(alg_arg.sr, alg_arg.potentials, Unwrap(alg_in.start)))
    /\ \A s \in 0..(alg_in.n - 1) :
          alg_in.final[s] # None
              => IsOne(alg_arg.sr, RwPotential(alg_arg.sr, alg_arg.potentials, s))

\* The states an accepting path may pass: all of them, or those whose
\* potential is not Zero
RwPassable(nonzero, s) ==
    ~nonzero \/ ~IsZero(alg_arg.sr, RwPotential(alg_arg.sr, alg_arg.potentials, s))

\* Every accepting path of at most depth arcs from s through passable states
\* has the same weight before and after, wb and wa being the products of
\* the arc weights that lead to s before and after the call
RECURSIVE RwPathsKept(_, _, _, _, _)
RwPathsKept(nonzero, s, depth, wb, wa) ==
    RwPassable(nonzero, s) =>
        /\ alg_in.final[s] # None =>
               Times(alg_arg.sr, wb, Unwrap(alg_in.final[s]))
                   = Times(alg_arg.sr, wa, Unwrap(alg_fst.final[s]))
        /\ depth > 0 =>
               \A i \in 1..Len(alg_in.arcs[s]) :
                   RwPathsKept(nonzero, alg_in.arcs[s][i].nextstate, depth - 1,
                               Times(alg_arg.sr, wb, alg_in.arcs[s][i].weight),
                               Times(alg_arg.sr, wa, alg_fst.arcs[s][i].weight))

\* The claim as stated: with the start potential and the final potentials
\* One, reweight keeps the weight of every accepting path
C12_AnyPotentials ==
    (mode = "reweight" /\ alg_res = "ok" /\ RwStartAndFinalsOne) =>
        RwPathsKept(FALSE, Unwrap(alg_in.start), RwMaxArcs + 1,
                    One(alg_arg.sr), One(alg_arg.sr))

\* C12, amended: with the start potential and the final potentials One,
\* reweight in either direction keeps the weight of every accepting path
\* whose states all have a potential that is not Zero (a state past the end
\* of the potentials has the potential Zero).
C12_ReweightKeepsPaths ==
    (mode = "reweight" /\ alg_res = "ok" /\ RwStartAndFinalsOne) =>
        RwPathsKept(TRUE, Unwrap(alg_in.start), RwMaxArcs + 1,
                    One(alg_arg.sr), One(alg_arg.sr))

\* reweight changed the arcs of an accepting path from the start state over
\* an inner state of potential 2 to a final state
C12_Witness ==
    /\ mode = "reweight" /\ alg_res = "ok" /\ RwStartAndFinalsOne
    /\ \E i \in 1..Len(alg_in.arcs[0]) :
          /\ alg_in.arcs[0][i].nextstate = 1
          /\ RwPotential(alg_arg.sr, alg_arg.potentials, 1) = 2
          /\ alg_fst.arcs[0][i].weight # alg_in.arcs[0][i].weight
          /\ \E j \in 1..Len(alg_in.arcs[1]) :
                /\ alg_in.final[alg_in.arcs[1][j].nextstate] # None
                /\ alg_fst.arcs[1][j].weight # alg_in.arcs[1][j].weight

----------------------------------------------------------------------------
(* C13: with a potential of One for every state, reweight in either          *)
(* direction returns Ok and leaves the FST equal to the input.               *)

RwAllOne ==
    /\ Len(alg_arg.potentials) = alg_in.n
    /\ \A i \in 1..Len(alg_arg.potentials) : IsOne(alg_arg.sr, alg_arg.potentials[i])

C13_ReweightIdentity ==
    (mode = "reweight" /\ alg_res # "none" /\ RwAllOne) =>
        alg_res = "ok" /\ alg_fst = alg_in

\* reweight toward the final states ran on an FST with arcs and several
\* final states, all potentials One
C13_Witness ==
    /\ mode = "reweight" /\ alg_res = "ok" /\ RwAllOne
    /\ alg_arg.reweight_type = "ReweightToFinal"
    /\ alg_in.n > 0
    /\ Len(alg_in.arcs[0]) > 0
    /\ \A s \in 0..(alg_in.n - 1) : alg_in.final[s] # None

----------------------------------------------------------------------------
(* closure, the eager version *)

\* A plausible slip: the arc back to the start state carries One
ClosureFinalArcOne(sr, final_weight, start_state) ==
    ArcNew(EPS_LABEL, EPS_LABEL, One(sr), start_state)

\* The arc a final state gets (line 48)
ClosureFinalArc(sr, final_weight, start_state) ==
    ArcNew(EPS_LABEL, EPS_LABEL, final_weight, start_state)

\* Lines 39-52: every final state gets an arc to the start state
ClosureFinals(sr, f) ==
    IF f.start = None THEN f
    ELSE [f EXCEPT !.arcs =
            [s \in 0..(f.n - 1) |->
                IF f.final[s] = None THEN f.arcs[s]
                ELSE Append(f.arcs[s],
                            ClosureFinalArc(sr, Unwrap(f.final[s]), Unwrap(f.start)))]]

\* A plausible slip: the new start state left without its final weight
ClosureStarNotFinal(sr, f) ==
    [n |-> f.n + 1,
     start |-> Some(f.n),
     arcs |-> [s \in 0..f.n |->
                 IF s < f.n THEN f.arcs[s]
                 ELSE IF f.start = None THEN <<>>
                 ELSE <<ArcNew(EPS_LABEL, EPS_LABEL, One(sr), Unwrap(f.start))>>],
     final |-> [s \in 0..f.n |-> IF s < f.n THEN f.final[s] ELSE None]]

\* Lines 54-76: the new start state of ClosureStar
ClosureStar(sr, f) ==
    [n |-> f.n + 1,
     start |-> Some(f.n),
     arcs |-> [s \in 0..f.n |->
                 IF s < f.n THEN f.arcs[s]
                 ELSE IF f.start = None THEN <<>>
                 ELSE <<ArcNew(EPS_LABEL, EPS_LABEL, One(sr), Unwrap(f.start))>>],
     final |-> [s \in 0..f.n |-> IF s < f.n THEN f.final[s] ELSE Some(One(sr))]]

\* closure(fst, closure_type): the FST it leaves
Closure(sr, f, closure_type) ==
    IF closure_type = "ClosureStar" THEN ClosureStar(sr, ClosureFinals(sr, f))
    ELSE ClosureFinals(sr, f)

\* States and arcs of the operand; the longest string looked at
ClosureStates == 3
ClosureMaxArcs == 2
ClosureMaxLen == 3

\* (ilabel, olabel, weight) of the arcs: every arc reads the label 1
ClosureShapes == {<<1, 1, 2>>, <<1, EPS_LABEL, 3>>}

\* The operands are chains
ClosureAdds ==
    {<<p, ArcNew(sh[1], sh[2], sh[3], p + 1)>> :
        p \in 0..(ClosureStates - 2), sh \in ClosureShapes}

ClosureAddKey(a) == a[1] * 4 + a[2].olabel

ClosureAddSeqs ==
    {q \in SeqsUpTo(ClosureAdds, ClosureMaxArcs) :
        \A i \in 1..(Len(q) - 1) : ClosureAddKey(q[i]) <= ClosureAddKey(q[i + 1])}

\* In the counting semiring the start state is not final, so that every
\* string has finitely many paths in the closure; in the tropical semiring
\* it is
ClosureFinalSets(sr) ==
    {fin \in [0..(ClosureStates - 1) -> {None, Some(2)}] :
        (sr = "tropical") = (fin[0] # None)}

\* The operands, the FST without states and an FST without a start state
ClosureFsts(sr) ==
    {MkFst(ClosureStates, Some(0), adds, fin) :
        adds \in ClosureAddSeqs, fin \in ClosureFinalSets(sr)}
        \cup {MkFst(0, None, <<>>, <<>>),
              MkFst(1, None, <<>>, [s \in {0} |-> Some(2)])}

InitClosure ==
    /\ mode = "closure"
    /\ alg_arg \in [sr : {"count", "tropical"}, closure_type : {"ClosureStar", "ClosurePlus"}]
    /\ alg_in \in ClosureFsts(alg_arg.sr)
    /\ alg_fst = alg_in
    /\ alg_res = "none"
    /\ FilterIdle /\ ReachIdle /\ MatcherIdle /\ LafIdle /\ FactorIdle /\ ComposeIdle

ClosureCall ==
    /\ alg_res = "none"
    /\ alg_fst' = Closure(alg_arg.sr, alg_fst, alg_arg.closure_type)
    /\ alg_res' = "ok"
    /\ UNCHANGED <<mode, alg_in, alg_arg, filterVars, reachVars, matcherVars, lafVars,
                   factorVars, composeVars>>

NextClosure == ClosureCall

SpecClosure == InitClosure /\ [][NextClosure]_vars

----------------------------------------------------------------------------
(* C14: closure-plus gives the concatenation of n >= 1 strings the sum,     *)
(* over the ways to cut it, of the products of the weights F gives the      *)
(* pieces; closure-star also gives the empty string the weight One; the     *)
(* closure-star of the empty FST accepts the empty string with weight One    *)
(* and nothing else.                                                         *)

\* The sum of the weights of the accepting paths of at most d arcs from
\* state s that read x and write z
RECURSIVE PathSumD(_, _, _, _, _, _, _)
RECURSIVE ArcsSumD(_, _, _, _, _, _, _, _)
PathSumD(f, sr, skip, s, x, z, d) ==
    Plus(sr,
         IF x = <<>> /\ z = <<>> /\ f.final[s] # None THEN Unwrap(f.final[s]) ELSE Zero(sr),
         IF d = 0 THEN Zero(sr) ELSE ArcsSumD(f, sr, skip, f.arcs[s], 1, x, z, d))

ArcsSumD(f, sr, skip, arcs, i, x, z, d) ==
    IF i > Len(arcs) THEN Zero(sr)
    ELSE Plus(sr,
              IF /\ (arcs[i].ilabel \in skip \/ (x # <<>> /\ Head(x) = arcs[i].ilabel))
                 /\ (arcs[i].olabel \in skip \/ (z # <<>> /\ Head(z) = arcs[i].olabel))
              THEN Times(sr, arcs[i].weight,
                         PathSumD(f, sr, skip, arcs[i].nextstate,
                                  IF arcs[i].ilabel \in skip THEN x ELSE Tail(x),
                                  IF arcs[i].olabel \in skip THEN z ELSE Tail(z),
                                  d - 1))
              ELSE Zero(sr),
              ArcsSumD(f, sr, skip, arcs, i + 1, x, z, d))

LangWeightD(f, sr, skip, x, z, d) ==
    IF f.start = None THEN Zero(sr) ELSE PathSumD(f, sr, skip, Unwrap(f.start), x, z, d)

\* The ways to cut (x, z) into a first piece and a rest, neither empty and
\* neither with more output than input (the operands give such a pair Zero)
ClosureCuts(x, z) ==
    {p \in (0..Len(x)) \X (0..Len(z)) :
        /\ p # <<0, 0>> /\ p # <<Len(x), Len(z)>>
        /\ p[2] <= p[1] /\ Len(z) - p[2] <= Len(x) - p[1]}

\* The weight of (x, z) as a concatenation of one or more pieces of F. A
\* piece that is the empty pair adds nothing: F gives it Zero in the
\* counting operands, and a weight that is not below One in the tropical ones
RECURSIVE ClosurePlusWeight(_, _, _, _)
RECURSIVE ClosureCutsSum(_, _, _, _, _)
ClosureCutTerm(f, sr, x, z, p) ==
    Times(sr, LangWeight(f, sr, {EPS_LABEL}, SubSeq(x, 1, p[1]), SubSeq(z, 1, p[2])),
          ClosurePlusWeight(f, sr, SubSeq(x, p[1] + 1, Len(x)), SubSeq(z, p[2] + 1, Len(z))))

ClosureCutsSum(f, sr, x, z, ps) ==
    IF ps = {} THEN Zero(sr)
    ELSE Plus(sr, ClosureCutTerm(f, sr, x, z, CHOOSE p \in ps : TRUE),
              ClosureCutsSum(f, sr, x, z, ps \ {CHOOSE p \in ps : TRUE}))

ClosurePlusWeight(f, sr, x, z) ==
    Plus(sr, LangWeight(f, sr, {EPS_LABEL}, x, z),
         ClosureCutsSum(f, sr, x, z, ClosureCuts(x, z)))

ClosureWeight(f, sr, closure_type, x, z) ==
    IF closure_type = "ClosureStar" /\ x = <<>> /\ z = <<>>
    THEN Plus(sr, One(sr), ClosurePlusWeight(f, sr, x, z))
    ELSE ClosurePlusWeight(f, sr, x, z)

\* Every arc of the operands reads a label: no output is longer than its input
ClosureStrings == SeqsUpTo({1}, ClosureMaxLen)

\* No more arcs than this on a path that reads x and goes through no cycle
\* of epsilon arcs: one per label, one back to the start state after each
\* label, one out of the new start state
ClosureDepth(x) == 2 * Len(x) + 1

C14_ClosureLanguage ==
    (mode = "closure" /\ alg_res = "ok") =>
        \A x \in ClosureStrings, z \in ClosureStrings :
            Len(z) <= Len(x) =>
            LangWeightD(alg_fst, alg_arg.sr, {EPS_LABEL}, x, z, ClosureDepth(x))
                = ClosureWeight(alg_in, alg_arg.sr, alg_arg.closure_type, x, z)

\* The closure-plus, in the counting semiring, of an FST that accepts the
\* string 1 in two ways: it accepts 1 1 1 in eight
C14_Witness ==
    /\ mode = "closure" /\ alg_res = "ok"
    /\ alg_arg.sr = "count" /\ alg_arg.closure_type = "ClosurePlus"
    /\ alg_in.n > 1
    /\ alg_in.arcs[0] = <<ArcNew(1, 1, 2, 1), ArcNew(1, 1, 2, 1)>>
    /\ alg_in.final[1] # None /\ alg_in.final[2] = None
    /\ LangWeightD(alg_fst, alg_arg.sr, {EPS_LABEL}, <<1, 1, 1>>, <<1, 1, 1>>,
                   ClosureDepth(<<1, 1, 1>>)) = 8 * 8 * 8

\* The closure-star of the FST without states
C14_WitnessEmpty ==
    /\ mode = "closure" /\ alg_res = "ok"
    /\ alg_arg.closure_type = "ClosureStar"
    /\ alg_in.n = 0
    /\ LangWeightD(alg_fst, alg_arg.sr, {EPS_LABEL}, <<>>, <<>>, 1) = One(alg_arg.sr)

----------------------------------------------------------------------------
(* C15: the eager closure gives every state that was final, with weight w,  *)
(* one more arc (EPS, EPS, w, old start) after its own (none when there is   *)
(* no start state) and keeps its final weight; ClosureStar adds exactly one  *)
(* state, start and final with weight One, with the one arc                  *)
(* (EPS, EPS, One, old start) when there was a start state; ClosurePlus      *)
(* keeps the number of states and the start state; the arcs that were there  *)
(* stay as they were.                                                        *)

ClosureIsStar == alg_arg.closure_type = "ClosureStar"

ClosureOldStateKept(s) ==
    /\ alg_fst.final[s] = alg_in.final[s]
    /\ SubSeq(alg_fst.arcs[s], 1, Len(alg_in.arcs[s])) = alg_in.arcs[s]
    /\ IF alg_in.final[s] # None /\ alg_in.start # None
       THEN /\ Len(alg_fst.arcs[s]) = Len(alg_in.arcs[s]) + 1
            /\ alg_fst.arcs[s][Len(alg_fst.arcs[s])]
                 = [ilabel |-> EPS_LABEL, olabel |-> EPS_LABEL,
                    weight |-> Unwrap(alg_in.final[s]), nextstate |-> Unwrap(alg_in.start)]
       ELSE Len(alg_fst.arcs[s]) = Len(alg_in.arcs[s])

ClosureNewStart ==
    /\ alg_fst.n = alg_in.n + 1
    /\ alg_fst.start = Some(alg_in.n)
    /\ alg_fst.final[alg_in.n] = Some(One(alg_arg.sr))
    /\ alg_fst.arcs[alg_in.n]
         = IF alg_in.start = None THEN <<>>
           ELSE <<[ilabel |-> EPS_LABEL, olabel |-> EPS_LABEL,
                   weight |-> One(alg_arg.sr), nextstate |-> Unwrap(alg_in.start)]>>

C15_ClosureFrame ==
    (mode = "closure" /\ alg_res = "ok") =>
        /\ \A s \in 0..(alg_in.n - 1) : ClosureOldStateKept(s)
        /\ IF ClosureIsStar THEN ClosureNewStart
           ELSE alg_fst.n = alg_in.n /\ alg_fst.start = alg_in.start

\* ClosureStar of an FST with a start state, arcs and a final state
C15_Witness ==
    /\ mode = "closure" /\ alg_res = "ok"
    /\ ClosureIsStar
    /\ alg_in.start # None
    /\ \E s \in 0..(alg_in.n - 1) : alg_in.final[s] # None /\ alg_in.arcs[s] # <<>>
    /\ alg_fst.n = alg_in.n + 1

\* An FST with a final state and no start state
C15_WitnessNoStart ==
    /\ mode = "closure" /\ alg_res = "ok"
    /\ alg_in.start = None /\ alg_in.n > 0
    /\ alg_in.final[0] # None
    /\ alg_fst.arcs[0] = <<>>

----------------------------------------------------------------------------
(* NoMatchComposeFilter *)

\* TrivialFilterState: a boolean, FALSE the blocking state
TrivialFilterStateNew(b) == b

\* NoMatchComposeFilter::start
NoMatchStart == TrivialFilterStateNew(TRUE)

\* A plausible slip: && for ||
NoMatchFilterArcAnd(a1, a2) ==
    TrivialFilterStateNew(a1.olabel # EPS_LABEL /\ a2.ilabel # EPS_LABEL)

\* NoMatchComposeFilter::filter_arc, the state returned
NoMatchFilterArc(a1, a2) ==
    TrivialFilterStateNew(a1.olabel # EPS_LABEL \/ a2.ilabel # EPS_LABEL)

\* Arcs passed to filter_arc: real arcs and the matchers' epsilon loops
NoMatchArcInputs == {ArcNew(il, ol, 1, 0) : il \in FilterArcLabels, ol \in FilterArcLabels}

\* NoMatchComposeFilter::new: the filter has no field but its matchers; fs is
\* the filter state the caller holds, the one start() gave it
InitNoMatch ==
    /\ mode = "nomatch"
    /\ fst1 = <<>>
    /\ s1 = NO_STATE_ID /\ s2 = NO_STATE_ID
    /\ fs = NoMatchStart
    /\ alleps1 = FALSE /\ noeps1 = FALSE
    /\ set_res = "none"
    /\ q_arc1 = NoArc /\ q_arc2 = NoArc
    /\ arc1 = NoArc /\ arc2 = NoArc
    /\ fa_res = None
    /\ ReachIdle /\ MatcherIdle /\ LafIdle /\ FactorIdle /\ ComposeIdle /\ AlgIdle

\* NoMatchComposeFilter::set_state: Ok(()), nothing kept
NoMatchSetState ==
    \E ns1 \in 0..FilterStates, ns2 \in 0..1, nfs \in BOOLEAN :
        /\ set_res' = "ok"
        /\ UNCHANGED <<mode, fst1, s1, s2, fs, alleps1, noeps1, q_arc1, q_arc2, arc1, arc2,
                       fa_res, algVars, composeVars, reachVars, matcherVars, lafVars,
                       factorVars>>

\* NoMatchComposeFilter::filter_arc: the arcs are borrowed mutably and left
\* as they were
NoMatchFilterArcCall ==
    \E a1 \in NoMatchArcInputs, a2 \in NoMatchArcInputs :
        /\ q_arc1' = a1 /\ q_arc2' = a2
        /\ arc1' = a1 /\ arc2' = a2
        /\ fa_res' = Some(NoMatchFilterArc(a1, a2))
        /\ UNCHANGED <<mode, fst1, s1, s2, fs, alleps1, noeps1, set_res, algVars,
                       composeVars, reachVars, matcherVars, lafVars, factorVars>>

NextNoMatch == NoMatchSetState \/ NoMatchFilterArcCall

SpecNoMatch == InitNoMatch /\ [][NextNoMatch]_vars

----------------------------------------------------------------------------
(* C16: filter_arc of the no-match filter returns the blocking state (false) *)
(* exactly when a1.olabel = EPS and a2.ilabel = EPS and the accepting state  *)
(* (true) otherwise, also when an arc is an epsilon loop carrying NO_LABEL;  *)
(* it leaves the arcs as they were; the start state is the accepting state;  *)
(* the result depends on no earlier set_state or filter_arc.                 *)

C16_NoMatchFilterArc ==
    mode = "nomatch" =>
        /\ fs = TRUE
        /\ fa_res # None =>
            /\ Unwrap(fa_res) \in BOOLEAN
            /\ (Unwrap(fa_res) = FALSE)
                 <=> (q_arc1.olabel = EPS_LABEL /\ q_arc2.ilabel = EPS_LABEL)
            /\ arc1 = q_arc1 /\ arc2 = q_arc2

\* The joint epsilon, after a set_state
C16_Witness ==
    /\ mode = "nomatch" /\ set_res = "ok"
    /\ fa_res = Some(FALSE)
    /\ q_arc1.olabel = EPS_LABEL /\ q_arc2.ilabel = EPS_LABEL

\* An epsilon loop of matcher 1 against an epsilon arc of FST2
C16_WitnessLoop ==
    /\ mode = "nomatch" /\ set_res = "ok"
    /\ fa_res = Some(TRUE)
    /\ q_arc1.olabel = NO_LABEL /\ q_arc2.ilabel = EPS_LABEL

----------------------------------------------------------------------------
(* weight_convert *)

\* MutableFst::add_state, add_arc, set_final, delete_final_weight on the
\* output FST
FstAddState(f) ==
    [n |-> f.n + 1,
     start |-> f.start,
     arcs |-> [s \in 0..f.n |-> IF s < f.n THEN f.arcs[s] ELSE <<>>],
     final |-> [s \in 0..f.n |-> IF s < f.n THEN f.final[s] ELSE None]]

FstAddArc(f, s, arc) == [f EXCEPT !.arcs[s] = Append(@, arc)]

FstSetFinal(f, s, w) == [f EXCEPT !.final[s] = Some(w)]

FstDeleteFinalWeight(f, s) == [f EXCEPT !.final[s] = None]

\* F2::new()
FstNew == MkFst(0, None, <<>>, <<>>)

RECURSIVE FstAddStates(_, _)
FstAddStates(f, k) == IF k = 0 THEN f ELSE FstAddStates(FstAddState(f), k - 1)

\* A mapper: its final action, what it adds to a weight, and the labels it
\* gives a final arc (None: the labels it was given). ReverseWeightConverter
\* keeps the weight's representation, the labels and the next state.
WcMapWeight(mapper, w) == w + mapper.wadd

WcArcMap(mapper, arc) ==
    ArcNew(arc.ilabel, arc.olabel, WcMapWeight(mapper, arc.weight), arc.nextstate)

WcFinalArcMap(mapper, final_arc) ==
    [ilabel |-> IF mapper.fil = None THEN final_arc.ilabel ELSE Unwrap(mapper.fil),
     olabel |-> IF mapper.fol = None THEN final_arc.olabel ELSE Unwrap(mapper.fol),
     weight |-> WcMapWeight(mapper, final_arc.weight)]

WcFinalArc(w) == [ilabel |-> EPS_LABEL, olabel |-> EPS_LABEL, weight |-> w]

WcNonEps(m) == m.ilabel # EPS_LABEL \/ m.olabel # EPS_LABEL

\* A plausible slip: the labels of the mapped final arc are not looked at
WcNoSuperfinalNoCheck(ctx, state, m) ==
    [ctx EXCEPT !.out = FstSetFinal(ctx.out, state, m.weight)]

\* Lines 70-77
WcNoSuperfinal(ctx, state, m) ==
    IF WcNonEps(m) THEN [ctx EXCEPT !.err = TRUE]
    ELSE [ctx EXCEPT !.out = FstSetFinal(ctx.out, state, m.weight)]

\* Lines 81-85: the superfinal state, made when first needed
WcWithSuperfinal(ctx) ==
    IF ctx.superfinal # None THEN ctx
    ELSE [ctx EXCEPT !.superfinal = Some(ctx.out.n),
                     !.out = FstSetFinal(FstAddState(ctx.out), ctx.out.n, One("count"))]

\* Lines 87-97
WcSuperfinalArc(ctx, state, m) ==
    [ctx EXCEPT !.out = FstDeleteFinalWeight(
                            FstAddArc(ctx.out, state,
                                      ArcNew(m.ilabel, m.olabel, m.weight,
                                             Unwrap(ctx.superfinal))),
                            state)]

\* Lines 78-101
WcAllowSuperfinal(ctx, state, m) ==
    IF WcNonEps(m) THEN WcSuperfinalArc(WcWithSuperfinal(ctx), state, m)
    ELSE [ctx EXCEPT !.out = FstSetFinal(ctx.out, state, m.weight)]

\* Lines 102-120
WcRequireSuperfinal(ctx, state, m) ==
    IF WcNonEps(m) \/ m.weight # Zero("count")
    THEN WcSuperfinalArc(ctx, state, m)
    ELSE [ctx EXCEPT !.out = FstDeleteFinalWeight(ctx.out, state)]

\* Lines 62-122: the final weight of one state
WcFinal(ctx, state, fst_in, mapper) ==
    IF fst_in.final[state] = None THEN ctx
    ELSE IF mapper.final_action = "MapNoSuperfinal"
    THEN WcNoSuperfinal(ctx, state,
                        WcFinalArcMap(mapper, WcFinalArc(Unwrap(fst_in.final[state]))))
    ELSE IF mapper.final_action = "MapAllowSuperfinal"
    THEN WcAllowSuperfinal(ctx, state,
                           WcFinalArcMap(mapper, WcFinalArc(Unwrap(fst_in.final[state]))))
    ELSE WcRequireSuperfinal(ctx, state,
                             WcFinalArcMap(mapper, WcFinalArc(Unwrap(fst_in.final[state]))))

\* Lines 58-61: the arcs of one state
WcArcs(ctx, state, fst_in, mapper) ==
    [ctx EXCEPT !.out.arcs[state] =
        @ \o [i \in 1..Len(fst_in.arcs[state]) |-> WcArcMap(mapper, fst_in.arcs[state][i])]]

\* Lines 57-123: the loop over the states, left at the first error
RECURSIVE WcLoop(_, _, _, _)
WcLoop(ctx, state, fst_in, mapper) ==
    IF state >= fst_in.n \/ ctx.err THEN ctx
    ELSE WcLoop(WcFinal(WcArcs(ctx, state, fst_in, mapper), state, fst_in, mapper),
                state + 1, fst_in, mapper)

\* Lines 34-54: the states, the superfinal state of MapRequireSuperfinal,
\* the start state
WcStart(fst_in, mapper) ==
    IF mapper.final_action = "MapRequireSuperfinal"
    THEN [err |-> FALSE,
          superfinal |-> Some(fst_in.n),
          out |-> [FstSetFinal(FstAddStates(FstNew, fst_in.n + 1), fst_in.n, One("count"))
                      EXCEPT !.start = fst_in.start]]
    ELSE [err |-> FALSE,
          superfinal |-> None,
          out |-> [FstAddStates(FstNew, fst_in.n) EXCEPT !.start = fst_in.start]]

\* weight_convert(fst_in, mapper)
WeightConvert(fst_in, mapper) ==
    IF fst_in.start = None
    THEN [err |-> FALSE, superfinal |-> None, out |-> FstNew]
    ELSE WcLoop(WcStart(fst_in, mapper), 0, fst_in, mapper)

\* States and arcs of the input
WcMaxStates == 2
WcMaxArcs == 2

\* An arc is a loop or leads to the next state
WcAdds ==
    {<<p, ArcNew(1, 2, 1, q)>> : p \in 0..(WcMaxStates - 1), q \in 0..(WcMaxStates - 1)}

\* The arcs in every order
WcAddSeqs ==
    SeqsUpTo({a \in WcAdds : a[2].nextstate = a[1] \/ a[2].nextstate = a[1] + 1}, WcMaxArcs)

\* The last state has no final weight, the weight Zero or the weight 2; the
\* others none or 2
WcFinals ==
    {fin \in [0..(WcMaxStates - 1) -> {None, Some(Zero("count")), Some(2)}] :
        \A s \in 0..(WcMaxStates - 2) : fin[s] # Some(Zero("count"))}

WcFsts ==
    {MkFst(WcMaxStates, start, adds, fin) :
        start \in {None, Some(0)}, adds \in WcAddSeqs, fin \in WcFinals}

WcMappers ==
    [final_action : {"MapNoSuperfinal", "MapAllowSuperfinal", "MapRequireSuperfinal"},
     wadd : {0, 1},
     fil : {None, Some(1)},
     fol : {None}]

InitWeightConvert ==
    /\ mode = "weight_convert"
    /\ alg_in \in WcFsts
    /\ alg_arg \in WcMappers
    /\ alg_fst = <<>>
    /\ alg_res = "none"
    /\ FilterIdle /\ ReachIdle /\ MatcherIdle /\ LafIdle /\ FactorIdle /\ ComposeIdle

WeightConvertCall ==
    /\ alg_res = "none"
    /\ \E r \in {WeightConvert(alg_in, alg_arg)} :
        /\ alg_res' = IF r.err THEN "err" ELSE "ok"
        /\ alg_fst' = IF r.err THEN <<>> ELSE r.out
    /\ UNCHANGED <<mode, alg_in, alg_arg, filterVars, reachVars, matcherVars, lafVars,
                   factorVars, composeVars>>

NextWeightConvert == WeightConvertCall

SpecWeightConvert == InitWeightConvert /\ [][NextWeightConvert]_vars

----------------------------------------------------------------------------
(* C17: weight_convert with a mapper whose final action is MapNoSuperfinal   *)
(* and that keeps labels and next states gives an FST with the same number   *)
(* of states, the same start state, for every state the same arcs in the     *)
(* same order with mapped weights, and the mapped final weight on exactly    *)
(* the states that were final; an input without a start state gives the      *)
(* empty FST; a mapped final arc with a label that is not epsilon makes the  *)
(* call return an error.                                                     *)

WcKeepsLabels == alg_arg.fil = None /\ alg_arg.fol = None

WcSameArc(a, b) ==
    /\ b.ilabel = a.ilabel /\ b.olabel = a.olabel /\ b.nextstate = a.nextstate
    /\ b.weight = WcMapWeight(alg_arg, a.weight)

WcSameState(s) ==
    /\ Len(alg_fst.arcs[s]) = Len(alg_in.arcs[s])
    /\ \A i \in 1..Len(alg_in.arcs[s]) : WcSameArc(alg_in.arcs[s][i], alg_fst.arcs[s][i])
    /\ (alg_fst.final[s] = None) <=> (alg_in.final[s] = None)
    /\ alg_in.final[s] # None =>
          alg_fst.final[s] = Some(WcMapWeight(alg_arg, Unwrap(alg_in.final[s])))

C17_WeightConvertNoSuperfinal ==
    (mode = "weight_convert" /\ alg_res # "none"
        /\ alg_arg.final_action = "MapNoSuperfinal") =>
        IF alg_in.start = None
        THEN alg_res = "ok" /\ alg_fst.n = 0 /\ alg_fst.start = None
        ELSE IF WcKeepsLabels
        THEN /\ alg_res = "ok"
             /\ alg_fst.n = alg_in.n
             /\ alg_fst.start = alg_in.start
             /\ \A s \in 0..(alg_in.n - 1) : WcSameState(s)
        ELSE (\E s \in 0..(alg_in.n - 1) : alg_in.final[s] # None) => alg_res = "err"

\* A mapper that changes the weights, on an FST with two arcs out of a state
\* and a final state
C17_Witness ==
    /\ mode = "weight_convert" /\ alg_res = "ok"
    /\ alg_arg.final_action = "MapNoSuperfinal" /\ WcKeepsLabels /\ alg_arg.wadd = 1
    /\ alg_in.start # None
    /\ Len(alg_in.arcs[0]) = 2 /\ alg_in.arcs[0][1] # alg_in.arcs[0][2]
    /\ \E s \in 0..(alg_in.n - 1) : alg_in.final[s] # None

\* The error
C17_WitnessErr ==
    /\ mode = "weight_convert" /\ alg_res = "err"
    /\ alg_arg.final_action = "MapNoSuperfinal" /\ ~WcKeepsLabels

\* No start state
C17_WitnessNoStart ==
    /\ mode = "weight_convert" /\ alg_res = "ok"
    /\ alg_arg.final_action = "MapNoSuperfinal"
    /\ alg_in.start = None /\ alg_in.final[0] # None

----------------------------------------------------------------------------
(* invert *)

\* A plausible slip: a swap without the temporary
InvertArcNoTemp(arc) ==
    [arc EXCEPT !.ilabel = arc.olabel, !.olabel = arc.olabel]

\* Line 34: swap(&mut arc.ilabel, &mut arc.olabel)
InvertArc(arc) ==
    [arc EXCEPT !.ilabel = arc.olabel, !.olabel = arc.ilabel]

\* invert(fst): every arc of every state
Invert(f) ==
    [f EXCEPT !.arcs =
        [state \in 0..(f.n - 1) |->
            [i \in 1..Len(f.arcs[state]) |-> InvertArc(f.arcs[state][i])]]]

\* States and arcs of the FST inverted
InvertStates == 2
InvertMaxArcs == 2

\* (ilabel, olabel, weight) of the arcs
InvertShapes == {<<2, 3, 1>>, <<1, 1, 2>>, <<EPS_LABEL, 1, 1>>}

InvertAdds ==
    {<<p, ArcNew(sh[1], sh[2], sh[3], q)>> :
        p \in 0..(InvertStates - 1), q \in 0..(InvertStates - 1), sh \in InvertShapes}

\* fst![2 => 3] and fst![3 => 2]: one arc from the start state to a final
\* state of weight One
InvertFst23 == MkFst(2, Some(0), <<<<0, ArcNew(2, 3, 1, 1)>>>>, [s \in 0..1 |-> IF s = 1 THEN Some(1) ELSE None])
InvertFst32 == MkFst(2, Some(0), <<<<0, ArcNew(3, 2, 1, 1)>>>>, [s \in 0..1 |-> IF s = 1 THEN Some(1) ELSE None])

\* The arcs in every order; the last state final; with and without a start
\* state; the FST without states
InvertFsts ==
    {MkFst(InvertStates, start, adds,
           [s \in 0..(InvertStates - 1) |-> IF s = InvertStates - 1 THEN Some(3) ELSE None]) :
        start \in {None, Some(0)}, adds \in SeqsUpTo(InvertAdds, InvertMaxArcs)}
        \cup {InvertFst23, MkFst(0, None, <<>>, <<>>)}

\* alg_arg counts the calls
InitInvert ==
    /\ mode = "invert"
    /\ alg_in \in InvertFsts
    /\ alg_arg = 0
    /\ alg_fst = alg_in
    /\ alg_res = "none"
    /\ FilterIdle /\ ReachIdle /\ MatcherIdle /\ LafIdle /\ FactorIdle /\ ComposeIdle

InvertCall ==
    /\ alg_arg < 2
    /\ alg_fst' = Invert(alg_fst)
    /\ alg_arg' = alg_arg + 1
    /\ alg_res' = "ok"
    /\ UNCHANGED <<mode, alg_in, filterVars, reachVars, matcherVars, lafVars, factorVars,
                   composeVars>>

NextInvert == InvertCall

SpecInvert == InitInvert /\ [][NextInvert]_vars

----------------------------------------------------------------------------
(* C18: invert exchanges the input and the output label of every arc of      *)
(* every state and changes nothing else: weights, next states, the order of  *)
(* the arcs, the start state, the final weights and the number of states     *)
(* stay; invert applied twice gives the original FST; invert of the          *)
(* single-arc FST 2 => 3 is the FST 3 => 2.                                  *)

InvertedArc(a, b) ==
    /\ b.ilabel = a.olabel /\ b.olabel = a.ilabel
    /\ b.weight = a.weight /\ b.nextstate = a.nextstate

InvertedOnce ==
    /\ alg_fst.n = alg_in.n
    /\ alg_fst.start = alg_in.start
    /\ alg_fst.final = alg_in.final
    /\ \A s \in 0..(alg_in.n - 1) :
        /\ Len(alg_fst.arcs[s]) = Len(alg_in.arcs[s])
        /\ \A i \in 1..Len(alg_in.arcs[s]) : InvertedArc(alg_in.arcs[s][i], alg_fst.arcs[s][i])

C18_Invert ==
    mode = "invert" =>
        /\ alg_arg = 1 => InvertedOnce
        /\ alg_arg = 2 => alg_fst = alg_in
        /\ (alg_arg = 1 /\ alg_in = InvertFst23) => alg_fst = InvertFst32

\* One call on an FST with two different arcs out of a state whose labels
\* differ
C18_Witness ==
    /\ mode = "invert" /\ alg_arg = 1
    /\ alg_in.n > 0
    /\ Len(alg_in.arcs[0]) = 2
    /\ alg_in.arcs[0][1].ilabel # alg_in.arcs[0][1].olabel
    /\ alg_in.arcs[0][1] # alg_in.arcs[0][2]
    /\ alg_fst # alg_in

\* Two calls
C18_WitnessTwice ==
    /\ mode = "invert" /\ alg_arg = 2
    /\ alg_in.n > 0
    /\ alg_in.arcs[0] # <<>>
    /\ alg_in.arcs[0][1].ilabel # alg_in.arcs[0][1].olabel

\* 2 => 3
C18_Witness23 ==
    /\ mode = "invert" /\ alg_arg = 1
    /\ alg_in = InvertFst23
    /\ alg_fst = InvertFst32

----------------------------------------------------------------------------
(* LabelLookAheadMatcher::lookahead_fst called on the matcher itself, with   *)
(* two partners: FST1 at pointer 1 and FST2 at pointer 2                     *)

\* The label the reachability data gives the final states
LookaheadFinalLabel == 3

\* The arcs of the partner's state, sorted on both labels
LookaheadArcSeqs ==
    {<<>>,
     << <<0, ArcNew(1, 1, 2, 0)>> >>,
     << <<0, ArcNew(2, 2, 3, 0)>> >>,
     << <<0, ArcNew(1, 1, 2, 0)>>, <<0, ArcNew(2, 2, 3, 0)>> >>}

\* Partners of one state, final or not
LookaheadFsts ==
    {MkFst(1, Some(0), adds, [s \in {0} |-> fin]) :
        adds \in LookaheadArcSeqs, fin \in {None, Some(5)}}

\* The interval set of matcher state 0; matcher state 1 has none
LookaheadIntervalSets ==
    {<< iset >> : iset \in {<<>>,
                            <<Interval(1, 2)>>,
                            <<Interval(1, 3)>>,
                            <<Interval(LookaheadFinalLabel, LookaheadFinalLabel + 1)>>,
                            <<Interval(2, LookaheadFinalLabel + 1)>>}}

InitLookahead ==
    /\ mode = "lookahead"
    /\ fst1 \in LookaheadFsts
    /\ FilterInit
    /\ label2index = <<>>
    /\ interval_sets \in LookaheadIntervalSets
    /\ final_label = LookaheadFinalLabel
    /\ reach_fst_input = FALSE
    /\ rl_arg = None /\ rl_res = None
    /\ r_arcs = <<>>
    /\ r_call = NoCall
    /\ \E mt \in {"MatchInput", "MatchOutput"}, mft \in MatcherMfts :
          matcher1 = NewWithData(mt, mft, None)
    /\ matcher2 = <<>>
    /\ fst2 = MkFst(1, Some(0), << <<0, ArcNew(2, 2, 3, 0)>> >>, [s \in {0} |-> None])
    /\ \E props \in {{}, SortProps} : fprops = <<SortProps, props>>
    /\ rc = <<1, 1>>
    /\ m_call = NoCall
    /\ LafIdle /\ FactorIdle /\ ComposeIdle /\ AlgIdle

\* lookahead_fst(matcher_state, lfst, lfst_state) with lfst the Rc at
\* pointer p
LookaheadFstCall ==
    \E p \in FstPtrs, matcher_state \in 0..1, lfst_state \in 0..1 :
        \E r \in {LookaheadFst(matcher1, matcher_state, p, IF p = 1 THEN fst1 ELSE fst2,
                               fprops[p], lfst_state)} :
            /\ rc[p] + r.clones <= MatcherMaxClones + 1
            /\ matcher1' = r.matcher
            /\ rc' = [rc EXCEPT ![p] = @ + r.clones]
            /\ m_call' = [kind |-> "lookahead_fst", lfst |-> p,
                          matcher_state |-> matcher_state, lfst_state |-> lfst_state,
                          res |-> r.res]
            /\ UNCHANGED <<mode, algVars, composeVars, filterVars, reachVars, lafVars,
                           factorVars, matcher2, fst2, fprops>>

NextLookahead == LookaheadFstCall

SpecLookahead == InitLookahead /\ [][NextLookahead]_vars

\* The last call, its partner and the arcs of the partner's state
LookaheadCalled == mode = "lookahead" /\ m_call.kind = "lookahead_fst"

LookaheadReturnedOk == LookaheadCalled /\ m_call.res # "err"

LookaheadPartner == IF m_call.lfst = 1 THEN fst1 ELSE fst2

LookaheadPartnerArcs == LookaheadPartner.arcs[m_call.lfst_state]

\* What reach returned in the last call, and reach_final
LookaheadReachArc ==
    ReachResult(IntervalSetOf(m_call.matcher_state), matcher1.reach_fst_input,
                LookaheadPartnerArcs, 0, Len(LookaheadPartnerArcs),
                "LOOKAHEAD_WEIGHT" \in matcher1.mft)

LookaheadReachFinal ==
    /\ LookaheadPartner.final[m_call.lfst_state] # None
    /\ Unwrap(LookaheadPartner.final[m_call.lfst_state]) # Zero(ReachSemiring)
    /\ Member(IntervalSetOf(m_call.matcher_state), final_label)

----------------------------------------------------------------------------
(* C19: after lookahead_fst returns Ok, the prefix arc is the single arc of  *)
(* the partner state inside the reach range exactly when the flags contain   *)
(* LOOKAHEAD_PREFIX, reach returned a range with end - begin = 1 and         *)
(* reach_final is false; otherwise it is cleared, whatever an earlier call   *)
(* stored.                                                                   *)

LookaheadPrefixCase ==
    /\ matcher1.reachable
    /\ "LOOKAHEAD_PREFIX" \in matcher1.mft
    /\ LookaheadReachArc.kind = "some"
    /\ LookaheadReachArc.end - LookaheadReachArc.begin = 1
    /\ ~LookaheadReachFinal

LookaheadPrefixCleared == matcher1.prefix_arc.nextstate = NO_STATE_ID

LookaheadPrefixSet ==
    matcher1.prefix_arc = LookaheadPartnerArcs[LookaheadReachArc.begin + 1]

C19_PrefixOfThisCall ==
    LookaheadReturnedOk =>
        IF LookaheadPrefixCase THEN LookaheadPrefixSet ELSE LookaheadPrefixCleared

\* The same after every return, an error included: refuted by a call that
\* fails in init_lookahead_fst after a call that stored a prefix
C19_PrefixAfterEveryReturn ==
    LookaheadCalled =>
        IF m_call.res # "err" /\ LookaheadPrefixCase
        THEN LookaheadPrefixSet
        ELSE LookaheadPrefixCleared

\* A prefix stored by the second of two reachable arcs
C19_Witness ==
    /\ LookaheadReturnedOk
    /\ LookaheadPrefixCase
    /\ Len(LookaheadPartnerArcs) = 2
    /\ matcher1.prefix_arc = ArcNew(2, 2, 3, 0)

\* A call that clears the prefix the call before stored
C19_WitnessCleared ==
    /\ LookaheadReturnedOk
    /\ matcher1.reachable
    /\ "LOOKAHEAD_PREFIX" \in matcher1.mft
    /\ ~LookaheadPrefixCase
    /\ rc[1] + rc[2] > 3
    /\ LookaheadPrefixCleared
    /\ matcher1.prefix_arc.ilabel # 0

----------------------------------------------------------------------------
(* C20: for a matcher whose flags do not contain LOOKAHEAD_WEIGHT,           *)
(* lookahead_weight() equals One after every lookahead_fst call.             *)

C20_WeightOneWithoutFlag ==
    (LookaheadCalled /\ "LOOKAHEAD_WEIGHT" \notin matcher1.mft) =>
        matcher1.lookahead_weight = One(ReachSemiring)

----------------------------------------------------------------------------
(* The factor-weight kernel driven call by call: find_state, expand through *)
(* the lazy substrate, compute_final (factor_weight.rs:147-276)             *)

\* Most entries the state table holds
KernelMaxTable == 3

\* Operands: an arc 0 -> 1 of weight 1 or 2, optional final weights
KernelFsts ==
    {MkFst(2, Some(0), << <<0, ArcNew(1, 1, w, 1)>> >>, (0 :> f0) @@ (1 :> f1)) :
        w \in {1, 2}, f0 \in {None, Some(2)}, f1 \in {None, Some(3)}}

\* The elements find_state is called on directly
KernelElements ==
    {Element(s, w) : s \in {None, Some(0), Some(1)}, w \in {One(fw_sr), 2}}

InitKernel ==
    /\ mode = "kernel"
    /\ ComposeIdle
    /\ AlgIdle
    /\ FilterIdle /\ ReachIdle /\ MatcherIdle /\ LafIdle
    /\ fw_fst \in KernelFsts
    /\ \E kind \in FactorKinds : fw_sr = kind[1] /\ fw_fi = kind[2]
    /\ fw_opts \in {o \in FactorOpts : o.mode # {} /\ o.final_ilabel = EPS_LABEL
                                       /\ ~o.increment_final_ilabel}
    /\ fw = ComputeStart(FactorWeightNew).k
    /\ marked = <<>>
    /\ c_op = NoCall
    /\ fw_out = None

KernelFrame ==
    UNCHANGED <<mode, algVars, composeVars, filterVars, reachVars, matcherVars, lafVars,
                fw_fst, fw_sr, fw_opts, fw_fi, marked, fw_out>>

\* find_state(elt)
KernelFindStateOp ==
    \E elt \in KernelElements :
        /\ Len(FindState(fw, elt).k.table) <= KernelMaxTable
        /\ fw' = FindState(fw, elt).k
        /\ c_op' = [kind |-> "find_state", elt |-> elt, id |-> FindState(fw, elt).id]
        /\ KernelFrame

\* The substrate asks for the arcs of a state: expand runs once per state
KernelArcsOp ==
    \E s \in 0..(KernelMaxTable - 1) :
        /\ s < Len(fw.table)
        /\ ~(s + 1 <= Len(fw.cache) /\ CacheExpanded(fw.cache[s + 1]))
        /\ Len(QueryArcs(fw, s).table) <= KernelMaxTable
        /\ fw' = QueryArcs(fw, s)
        /\ c_op' = [kind |-> "expand", state |-> s]
        /\ KernelFrame

\* compute_final(state)
KernelComputeFinalOp ==
    \E s \in 0..(KernelMaxTable - 1) :
        /\ s < Len(fw.table)
        /\ c_op' = [kind |-> "compute_final", state |-> s, res |-> ComputeFinal(fw, s)]
        /\ UNCHANGED fw
        /\ KernelFrame

NextKernel == KernelFindStateOp \/ KernelArcsOp \/ KernelComputeFinalOp

SpecKernel == InitKernel /\ [][NextKernel]_vars

\* The total weight of an element: the residual weight, times the final
\* weight of the operand state when the element has one, Zero when that
\* state is not final
KernelTotalWeight(elt) ==
    IF elt.state = None THEN elt.weight
    ELSE IF ~IsFinal(fw_fst, Unwrap(elt.state)) THEN Zero(fw_sr)
    ELSE Times(fw_sr, elt.weight, Unwrap(FinalWeight(fw_fst, Unwrap(elt.state))))

\* The arcs of an expanded state that lead to an element without an operand
\* state: the final-factor arcs
KernelFinalArcs(s) ==
    {i \in 1..Len(fw.cache[s + 1].arcs) :
        fw.table[fw.cache[s + 1].arcs[i].nextstate + 1].state = None}

KernelExpanded(s) == s + 1 <= Len(fw.cache) /\ CacheExpanded(fw.cache[s + 1])

\* C21: compute_final returns a weight exactly when the total weight of the
\* element is non-zero and final weights are not factored or the factor
\* iterator of that weight is exhausted, and the weight returned is the total
\* weight; an expanded state is final or has final-factor arcs, never both,
\* and never neither when its total weight is non-zero.
C21_FinalOrFinalArcs ==
    mode = "kernel" =>
        /\ c_op.kind = "compute_final" =>
              /\ (c_op.res # None) <=>
                    /\ ~IsZero(fw_sr, KernelTotalWeight(fw.table[c_op.state + 1]))
                    /\ \/ ~FactorFinalWeights
                       \/ FactorDone(fw_fi, KernelTotalWeight(fw.table[c_op.state + 1]))
              /\ c_op.res # None =>
                    c_op.res = Some(KernelTotalWeight(fw.table[c_op.state + 1]))
        /\ \A s \in 0..(Len(fw.table) - 1) :
              KernelExpanded(s) =>
                  /\ ~(ComputeFinal(fw, s) # None /\ KernelFinalArcs(s) # {})
                  /\ ~IsZero(fw_sr, KernelTotalWeight(fw.table[s + 1])) =>
                        (ComputeFinal(fw, s) # None \/ KernelFinalArcs(s) # {})

\* A state whose total weight still factors was expanded and then asked for
\* its final weight: it is not final and has a final-factor arc
C21_Witness ==
    /\ mode = "kernel"
    /\ c_op.kind = "compute_final"
    /\ c_op.res = None
    /\ KernelExpanded(c_op.state)
    /\ KernelFinalArcs(c_op.state) # {}
    /\ ~IsZero(fw_sr, KernelTotalWeight(fw.table[c_op.state + 1]))

\* C23: find_state keeps a bijection between elements and dense ids: no two
\* ids hold the same element, the unfactored map points at the element it
\* stands for, the id a call returns holds the element of the call, and no
\* call changes the element of an id handed out before.
C23_FindStateBijection ==
    /\ [](mode = "kernel" =>
            /\ \A i, j \in 1..Len(fw.table) : fw.table[i] = fw.table[j] => i = j
            /\ \A s \in DOMAIN fw.unfactored :
                  /\ fw.unfactored[s] < Len(fw.table)
                  /\ fw.table[fw.unfactored[s] + 1] = Element(Some(s), One(fw_sr))
            /\ c_op.kind = "find_state" =>
                  /\ c_op.id \in 0..(Len(fw.table) - 1)
                  /\ fw.table[c_op.id + 1] = c_op.elt)
    /\ [][mode = "kernel" =>
            /\ Len(fw'.table) >= Len(fw.table)
            /\ \A i \in 1..Len(fw.table) : fw'.table[i] = fw.table[i]
            /\ c_op'.kind = "find_state" =>
                  IF \E i \in 1..Len(fw.table) : fw.table[i] = c_op'.elt
                  THEN Len(fw'.table) = Len(fw.table)
                  ELSE c_op'.id = Len(fw.table) /\ Len(fw'.table) = Len(fw.table) + 1]_vars

\* Both routes were taken: the unfactored map and the state table hold ids,
\* and the last call found an element that was already there
C23_Witness ==
    /\ mode = "kernel"
    /\ c_op.kind = "find_state"
    /\ DOMAIN fw.unfactored # {}
    /\ \E i \in 1..Len(fw.table) : fw.table[i].state = None
    /\ \E i \in 1..Len(fw.table) :
          fw.table[i].state # None /\ ~IsOne(fw_sr, fw.table[i].weight)
    /\ c_op.id < Len(fw.table) - 1

----------------------------------------------------------------------------
(* reweight, arc by arc (reweight.rs:35-117) *)

RwPi(s) == RwPotential(alg_arg.sr, alg_arg.potentials, s)

\* The start state when its potential is neither One nor Zero: the state
\* lines 93-117 reweight a second time
RwStartHandled(s) ==
    /\ alg_in.start = Some(s)
    /\ ~IsOne(alg_arg.sr, RwPi(s))
    /\ ~IsZero(alg_arg.sr, RwPi(s))

\* The weight the doc comment gives an arc of weight w from p to q
RwDocArcWeight(w, p, q) ==
    IF alg_arg.reweight_type = "ReweightToInitial"
    THEN Divide(alg_arg.sr, Times(alg_arg.sr, w, RwPi(q)), RwPi(p))
    ELSE Divide(alg_arg.sr, Times(alg_arg.sr, RwPi(p), w), RwPi(q))

\* The final weight the claim gives a state of final weight f
RwDocFinalWeight(f, s) ==
    IF alg_arg.reweight_type = "ReweightToFinal" THEN Times(alg_arg.sr, f, RwPi(s))
    ELSE IF IsZero(alg_arg.sr, RwPi(s)) THEN f
    ELSE Divide(alg_arg.sr, f, RwPi(s))

\* Arcs between non-zero potentials, the start state with a potential other
\* than One excepted, get the weight of the doc comment
RwArcsRewritten ==
    \A s \in 0..(alg_in.n - 1) : \A i \in 1..Len(alg_in.arcs[s]) :
        (/\ ~IsZero(alg_arg.sr, RwPi(s))
         /\ ~IsZero(alg_arg.sr, RwPi(alg_in.arcs[s][i].nextstate))
         /\ ~(alg_in.start = Some(s) /\ ~IsOne(alg_arg.sr, RwPi(s))))
        => alg_fst.arcs[s][i].weight =
               RwDocArcWeight(alg_in.arcs[s][i].weight, s, alg_in.arcs[s][i].nextstate)

\* Arcs of the states in skip aside, an arc with a Zero potential at an end
\* keeps its weight
RwZeroArcsKept(skip) ==
    \A s \in (0..(alg_in.n - 1)) \ skip : \A i \in 1..Len(alg_in.arcs[s]) :
        (IsZero(alg_arg.sr, RwPi(s)) \/ IsZero(alg_arg.sr, RwPi(alg_in.arcs[s][i].nextstate)))
        => alg_fst.arcs[s][i].weight = alg_in.arcs[s][i].weight

\* The states in skip aside, a final weight becomes the one of the claim
RwFinalsRewritten(skip) ==
    \A s \in (0..(alg_in.n - 1)) \ skip :
        /\ (alg_fst.final[s] = None) <=> (alg_in.final[s] = None)
        /\ alg_in.final[s] # None =>
              alg_fst.final[s] = Some(RwDocFinalWeight(Unwrap(alg_in.final[s]), s))

\* C22 as stated: the start state is excepted for the arcs between non-zero
\* potentials only; the arcs with a Zero potential and the final weights
\* follow the formulas at every state.
C22_AsStated ==
    (mode = "reweight" /\ alg_res = "ok") =>
        RwArcsRewritten /\ RwZeroArcsKept({}) /\ RwFinalsRewritten({})

\* C22: after reweight every arc between non-zero potentials, the start
\* state with a potential other than One excepted, has the weight
\* (w x pi(q)) / pi(p) or (pi(p) x w) / pi(q); at every state but a start
\* state whose potential is neither One nor Zero an arc with a Zero potential
\* at an end keeps its weight and the final weight f becomes f / pi(s)
\* (f when pi(s) is Zero) or f x pi(s); a state past the end of the
\* potentials has the potential Zero.
C22_ArcsAndFinals ==
    (mode = "reweight" /\ alg_res = "ok") =>
        /\ RwArcsRewritten
        /\ RwZeroArcsKept({s \in 0..(alg_in.n - 1) : RwStartHandled(s)})
        /\ RwFinalsRewritten({s \in 0..(alg_in.n - 1) : RwStartHandled(s)})

\* A state other than the start state has a potential that is neither One
\* nor Zero, is final, and has one arc to a non-zero potential, rewritten,
\* and one to a Zero potential
C22_Witness ==
    /\ mode = "reweight"
    /\ alg_res = "ok"
    /\ \E s \in 0..(alg_in.n - 1) :
          /\ alg_in.start # Some(s)
          /\ ~IsZero(alg_arg.sr, RwPi(s)) /\ ~IsOne(alg_arg.sr, RwPi(s))
          /\ alg_in.final[s] # None
          /\ alg_fst.final[s] # alg_in.final[s]
          /\ \E i \in 1..Len(alg_in.arcs[s]) :
                /\ ~IsZero(alg_arg.sr, RwPi(alg_in.arcs[s][i].nextstate))
                /\ alg_fst.arcs[s][i].weight # alg_in.arcs[s][i].weight
          /\ \E i \in 1..Len(alg_in.arcs[s]) :
                IsZero(alg_arg.sr, RwPi(alg_in.arcs[s][i].nextstate))

----------------------------------------------------------------------------
(* reweight with a start potential other than One (reweight.rs:92-117) *)

\* One potential per state, none of them Zero
RwAllNonZero ==
    /\ Len(alg_arg.potentials) = alg_in.n
    /\ \A i \in 1..Len(alg_arg.potentials) : ~IsZero(alg_arg.sr, alg_arg.potentials[i])

\* C28: with one non-zero potential per state, the start potential free,
\* reweight in either direction keeps the weight of every accepting path,
\* also when the start state has incoming arcs or a self-loop.
C28_PathsKeptAnyStart ==
    (mode = "reweight" /\ alg_res = "ok" /\ alg_in.start # None /\ RwAllNonZero) =>
        RwPathsKept(FALSE, Unwrap(alg_in.start), RwMaxArcs + 1,
                    One(alg_arg.sr), One(alg_arg.sr))

----------------------------------------------------------------------------
(* LabelReachable::reach: its two strategies on one input, and its two      *)
(* versions, compose/label_reachable.rs:301-362 and                         *)
(* lookahead_matchers/label_reachable.rs:276-336                            *)

\* The value reach returns from what its loop leaves (lines 357-361)
ReachOutcome(acc) ==
    IF acc.reach_begin # UNASSIGNED
    THEN [kind |-> "some", begin |-> acc.reach_begin, end |-> acc.reach_end,
          weight |-> acc.reach_weight]
    ELSE [kind |-> "none"]

\* The linear scan of lines 315-334, which takes aiter_end - aiter_begin arcs
ReachLinearScan(iset, input, arcs, aiter_begin, aiter_end, compute_weight) ==
    ReachOutcome(ReachLinear(iset, input, arcs, aiter_begin, aiter_end, compute_weight,
                             ReachStart))

\* The interval scan of lines 336-354
ReachIntervalScan(iset, input, arcs, aiter_begin, aiter_end, compute_weight) ==
    ReachOutcome(ReachIntervals(iset, input, 1, arcs, aiter_begin, aiter_end,
                                compute_weight, ReachStart))

\* reach of algorithms/compose/label_reachable.rs
ReachCompose(iset, input, arcs, aiter_begin, aiter_end, compute_weight) ==
    IF ReachUsesLinearScan(aiter_end - aiter_begin, Len(iset))
    THEN ReachLinearScan(iset, input, arcs, aiter_begin, aiter_end, compute_weight)
    ELSE ReachIntervalScan(iset, input, arcs, aiter_begin, aiter_end, compute_weight)

\* reach of algorithms/lookahead_matchers/label_reachable.rs: its linear scan
\* skips aiter_begin arcs and then takes aiter_end arcs (line 291)
ReachLookaheadMatchers(iset, input, arcs, aiter_begin, aiter_end, compute_weight) ==
    IF ReachUsesLinearScan(aiter_end - aiter_begin, Len(iset))
    THEN ReachOutcome(ReachLinear(iset, input, arcs, aiter_begin, aiter_begin + aiter_end,
                                  compute_weight, ReachStart))
    ELSE ReachIntervalScan(iset, input, arcs, aiter_begin, aiter_end, compute_weight)

InitReachCmp ==
    /\ mode = "reachcmp"
    /\ ComposeIdle
    /\ AlgIdle
    /\ FactorIdle
    /\ FilterIdle
    /\ MatcherIdle
    /\ LafIdle
    /\ label2index = <<>>
    /\ \E iset \in ReachIntervalSets : interval_sets = <<iset>>
    /\ final_label = NO_LABEL
    /\ reach_fst_input \in BOOLEAN
    /\ rl_arg = None /\ rl_res = None
    /\ \E q \in ReachLabelSeqs : r_arcs = ReachArcList(q, reach_fst_input)
    /\ r_call = NoCall

ReachCmpFrame ==
    UNCHANGED <<mode, algVars, composeVars, filterVars, matcherVars, lafVars, factorVars,
                label2index, interval_sets, final_label, reach_fst_input, rl_arg, rl_res,
                r_arcs>>

\* Both branches of reach run on one state, arc list and range
ReachStrategiesCall ==
    /\ r_call = NoCall
    /\ \E b \in 0..Len(r_arcs), cw \in BOOLEAN : \E e \in b..Len(r_arcs) :
          r_call' = [kind |-> "strategies", aiter_begin |-> b, aiter_end |-> e,
                     compute_weight |-> cw,
                     linear |-> ReachLinearScan(IntervalSetOf(0), reach_fst_input, r_arcs,
                                                b, e, cw),
                     intervals |-> ReachIntervalScan(IntervalSetOf(0), reach_fst_input,
                                                     r_arcs, b, e, cw)]
    /\ ReachCmpFrame

\* Both versions of reach run on one state, arc list and range
ReachVersionsCall ==
    /\ r_call = NoCall
    /\ \E b \in 0..Len(r_arcs), cw \in BOOLEAN : \E e \in b..Len(r_arcs) :
          r_call' = [kind |-> "versions", aiter_begin |-> b, aiter_end |-> e,
                     compute_weight |-> cw,
                     compose |-> ReachCompose(IntervalSetOf(0), reach_fst_input, r_arcs,
                                              b, e, cw),
                     lookahead_matchers |->
                         ReachLookaheadMatchers(IntervalSetOf(0), reach_fst_input, r_arcs,
                                                b, e, cw)]
    /\ ReachCmpFrame

NextReachCmp == ReachStrategiesCall \/ ReachVersionsCall

SpecReachCmp == InitReachCmp /\ [][NextReachCmp]_vars

\* C24: on an interval set of sorted disjoint intervals over indices from 1
\* on, an arc list sorted on the reach label and any range, the linear scan
\* and the interval scan of reach return the same (begin, end, weight), or
\* both return None.
C24_StrategiesAgree ==
    (mode = "reachcmp" /\ r_call.kind = "strategies") => r_call.linear = r_call.intervals

\* Both scans found the same range over two intervals, with an unreachable
\* arc between the reachable ones and the weights summed
C24_Witness ==
    /\ mode = "reachcmp"
    /\ r_call.kind = "strategies"
    /\ r_call.compute_weight
    /\ Len(IntervalSetOf(0)) >= 2
    /\ r_call.linear.kind = "some"
    /\ r_call.intervals.kind = "some"
    /\ r_call.linear.end - r_call.linear.begin = 3
    /\ \E p \in (r_call.linear.begin + 1)..r_call.linear.end :
          ~ReachLabel(IntervalSetOf(0), ReachArcLabel(reach_fst_input, r_arcs[p]))

\* C26: the reach of compose/label_reachable.rs and the reach of
\* lookahead_matchers/label_reachable.rs return the same result for one
\* interval set, sorted arc list and range, and the range returned lies
\* inside [aiter_begin, aiter_end).
C26_VersionsAgree ==
    (mode = "reachcmp" /\ r_call.kind = "versions") =>
        /\ r_call.compose = r_call.lookahead_matchers
        /\ r_call.compose.kind = "some" =>
              /\ r_call.aiter_begin <= r_call.compose.begin
              /\ r_call.compose.end <= r_call.aiter_end
        /\ r_call.lookahead_matchers.kind = "some" =>
              /\ r_call.aiter_begin <= r_call.lookahead_matchers.begin
              /\ r_call.lookahead_matchers.end <= r_call.aiter_end

----------------------------------------------------------------------------
(* lookahead_fst after a failed init_lookahead_fst, and the partner's Rc    *)
(* (label_lookahead_matcher.rs:131-151)                                     *)

\* init_lookahead_fst on the partner at pointer p returns an error: the
\* matcher, its match type and the partner's properties never change
LookaheadInitFails(p) == ~InitLookaheadFst(matcher1, p, fprops[p]).ok

\* The partner at pointer p was handed to lookahead_fst at least twice: one
\* call leaves at most two clones
LookaheadCalledTwice(p) == rc[p] > 3

\* C25: once init_lookahead_fst has returned an error for a partner, every
\* later lookahead_fst on the matcher with that partner returns an error.
C25_FailedPartnerFailsAgain ==
    (LookaheadCalled /\ LookaheadInitFails(m_call.lfst) /\ LookaheadCalledTwice(m_call.lfst))
        => m_call.res = "err"

\* C29: init_lookahead_fst and lookahead_fst leave the strong count of the
\* partner's Rc as it was before the calls.
C29_StrongCountKept ==
    mode = "lookahead" => \A p \in FstPtrs : rc[p] = 1

----------------------------------------------------------------------------
(* SequenceComposeFilter::set_state on a state FST1 does not have           *)
(* (sequence_compose_filter.rs:69-82)                                       *)

\* C27: a set_state that returns an error leaves the remembered (s1, s2, fs)
\* and the flags alleps1 and noeps1 as they were before the call.
C27_SetStateAtomic ==
    [][(mode = "seq" /\ set_res' = "err") =>
          /\ s1' = s1 /\ s2' = s2 /\ fs' = fs
          /\ alleps1' = alleps1 /\ noeps1' = noeps1]_vars

----------------------------------------------------------------------------
(* reach_label on relabelled labels (label_reachable.rs:203-211, 281-290,   *)
(* 36-40)                                                                   *)

\* The labels of a set as the sorted arc list of a one-state operand
RECURSIVE ReachLabelArcs(_)
ReachLabelArcs(labels) ==
    IF labels = {} THEN <<>>
    ELSE <<ArcNew(MinOf(labels), MinOf(labels), 1, 0)>>
             \o ReachLabelArcs(labels \ {MinOf(labels)})

\* The data LabelReachable::new leaves for an operand with the arcs r_arcs:
\* label2index numbers the labels of the operand (and NO_LABEL when the
\* operand has a final state) from 1 on, and the interval set of state 0
\* holds some of these indices; state 1 has no interval set
InitReachLabel ==
    /\ mode = "reachlabel"
    /\ ComposeIdle
    /\ AlgIdle
    /\ FactorIdle
    /\ FilterIdle
    /\ MatcherIdle
    /\ LafIdle
    /\ label2index \in Label2IndexAfterNew
    /\ \E set \in SUBSET Range(label2index) : interval_sets = <<IntervalsFrom(set, 1)>>
    /\ final_label = (IF NO_LABEL \in DOMAIN label2index THEN label2index[NO_LABEL] ELSE NO_LABEL)
    /\ reach_fst_input = TRUE
    /\ rl_arg = None /\ rl_res = None
    /\ r_arcs = ReachLabelArcs(DOMAIN label2index \ {NO_LABEL})
    /\ r_call = NoCall

\* reach_label(current_state, label)
ReachLabelCall ==
    /\ \E s \in 0..1, label \in 0..(RelabelMaxLabel + 2) :
          r_call' = [kind |-> "reach_label", state |-> s, label |-> label,
                     res |-> IF ~HasIntervalSet(s) THEN "err"
                             ELSE IF ReachLabel(IntervalSetOf(s), label) THEN "true"
                             ELSE "false"]
    /\ UNCHANGED <<mode, algVars, composeVars, filterVars, matcherVars, lafVars, factorVars,
                   label2index, interval_sets, final_label, reach_fst_input, rl_arg, rl_res,
                   r_arcs>>

NextReachLabel == RelabelCall \/ ReachLabelCall

SpecReachLabel == InitReachLabel /\ [][NextReachLabel]_vars

\* The labels relabel has numbered that the operand did not have when the
\* reachability data was built
ReachLabelFresh ==
    {l \in DOMAIN label2index :
        /\ \A i \in 1..Len(r_arcs) : ReachArcLabel(reach_fst_input, r_arcs[i]) # l
        /\ ~(l = NO_LABEL /\ final_label # NO_LABEL)}

====
